---- MODULE Spec2Model ----
(***************************************************************************)
(* SyntaxTreeHybrid: the bracket parser and serializer, the tree model,    *)
(* the canvas host's layout, and the sync engine that keeps the bracket    *)
(* text and the diagram consistent.                                        *)
(*                                                                         *)
(* A JavaScript string is a sequence of one-character strings, indexed     *)
(* from 0 by At and Substring as the source indexes it.                    *)
(***************************************************************************)
EXTENDS Integers, Sequences, FiniteSets, TLC

\* ------------------------------------------------------------------------
\* Strings
\* ------------------------------------------------------------------------

Min2(a, b) == IF a < b THEN a ELSE b
Max2(a, b) == IF a > b THEN a ELSE b

Abs(n) == IF n < 0 THEN 0 - n ELSE n

\* ------------------------------------------------------------------------
\* Whole numbers too large for the integers of the checker, as the list of
\* their digits in base 10000, lowest first.  The squared distances of the
\* canvas geometry are compared in them, exactly.
\* ------------------------------------------------------------------------

RECURSIVE ToBig(_)
ToBig(n) == IF n < 10000 THEN <<n>> ELSE <<n % 10000>> \o ToBig(n \div 10000)

BigDigit(a, k) == IF k <= Len(a) THEN a[k] ELSE 0

\* The sum of the products of the digits of a and b that fall in column k
RECURSIVE ColumnSum(_, _, _, _)
ColumnSum(a, b, k, i) ==
    IF i > Len(a) THEN 0
    ELSE (IF k + 1 - i >= 1 THEN a[i] * BigDigit(b, k + 1 - i) ELSE 0)
         + ColumnSum(a, b, k, i + 1)

RECURSIVE Carry(_, _)
Carry(columns, c) ==
    IF columns = <<>> THEN (IF c = 0 THEN <<>> ELSE ToBig(c))
    ELSE <<(Head(columns) + c) % 10000>>
         \o Carry(Tail(columns), (Head(columns) + c) \div 10000)

BigMul(a, b) == Carry([k \in 1..(Len(a) + Len(b) - 1) |-> ColumnSum(a, b, k, 1)], 0)

BigLess(a, b) ==
    \E k \in 1..Max2(Len(a), Len(b)) :
        /\ BigDigit(a, k) < BigDigit(b, k)
        /\ \A j \in (k + 1)..Max2(Len(a), Len(b)) : BigDigit(a, j) = BigDigit(b, j)

\* str[i]; "" stands for undefined (an index outside the string).
At(str, i) == IF i >= 0 /\ i < Len(str) THEN str[i + 1] ELSE ""

\* str.substring(a, b)
Substring(str, a, b) ==
    LET a1 == Max2(0, Min2(a, Len(str)))
        b1 == Max2(0, Min2(b, Len(str)))
    IN  SubSeq(str, Min2(a1, b1) + 1, Max2(a1, b1))

\* the regular expression class \s
IsWs(c) == c \in {" ", "\n", "\t"}

\* the regular expression class \w, over the characters the model uses
IsWord(c) == c \notin {"", "[", "]", " ", "\n", "\t", "^", "<", ">", "."}

\* str.trim()
Trim(str) ==
    LET keep == {i \in 1..Len(str) : ~IsWs(str[i])}
    IN  IF keep = {} THEN <<>>
        ELSE SubSeq(str, CHOOSE i \in keep : \A j \in keep : i <= j,
                         CHOOSE i \in keep : \A j \in keep : i >= j)

Repeat(c, n) == [k \in 1..n |-> c]

\* ------------------------------------------------------------------------
\* Tree nodes as the parser builds them: a node owns its children.
\* ------------------------------------------------------------------------

ClauseLabels == {<<"S">>, <<"C", "P">>}
PhraseLabels == {<<"N", "P">>, <<"V", "P">>}

getNodeTypeFromLabel(label) ==
    IF label \in ClauseLabels THEN "CLAUSE"
    ELSE IF label \in PhraseLabels THEN "PHRASE"
    ELSE "POS"

TreeNode(label, nodeType) ==
    [label |-> label, nodeType |-> nodeType, isStarred |-> FALSE,
     movementLabel |-> <<>>, movementTail |-> <<>>, children |-> <<>>]

\* null, where the parser returns it instead of a node
NullNode == [isNull |-> TRUE]

\* ------------------------------------------------------------------------
\* BracketParser
\* ------------------------------------------------------------------------

\* balanceBrackets without the loop that appends closing brackets
balanceBracketsNoClose(str) ==
    LET opens  == Cardinality({i \in 1..Len(str) : str[i] = "["})
        closes == Cardinality({i \in 1..Len(str) : str[i] = "]"})
        open   == opens - closes
    IN  IF open < 0 THEN Repeat("[", 0 - open) \o str ELSE str

\* The net count alone decides what is added: closing brackets are appended
\* for a positive count, opening brackets prepended for a negative one.
balanceBrackets(str) ==
    LET opens  == Cardinality({i \in 1..Len(str) : str[i] = "["})
        closes == Cardinality({i \in 1..Len(str) : str[i] = "]"})
        open   == opens - closes
    IN  IF open > 0 THEN str \o Repeat("]", open)
        ELSE IF open < 0 THEN Repeat("[", 0 - open) \o str
        ELSE str

parseSpecialMarkers(node) ==
    LET label0  == node.label
        carets  == {i \in 1..Len(label0) : label0[i] = "^"}
        c       == CHOOSE i \in carets : \A j \in carets : i <= j
        label1  == IF carets = {} THEN label0
                   ELSE SubSeq(label0, 1, c - 1) \o SubSeq(label0, c + 1, Len(label0))
        \* /_(\w+)$/ : the leftmost underscore followed by word characters
        \* up to the end of the label
        ms      == {i \in 1..Len(label1) :
                      /\ label1[i] = "_"
                      /\ i < Len(label1)
                      /\ \A j \in (i + 1)..Len(label1) : IsWord(label1[j])}
        m       == CHOOSE i \in ms : \A j \in ms : i <= j
        label2  == IF ms = {} THEN label1 ELSE SubSeq(label1, 1, m - 1)
    IN  [node EXCEPT
           !.isStarred = IF carets = {} THEN node.isStarred ELSE TRUE,
           !.movementLabel = IF ms = {} THEN node.movementLabel
                             ELSE SubSeq(label1, m + 1, Len(label1)),
           !.label = label2,
           !.nodeType = IF node.nodeType # "TERMINAL"
                        THEN getNodeTypeFromLabel(label2) ELSE node.nodeType]

\* The end (exclusive, 1-based) of the run of \w characters that starts at p.
RECURSIVE WordRunEnd(_, _)
WordRunEnd(s, p) ==
    IF p <= Len(s) /\ IsWord(s[p]) THEN WordRunEnd(s, p + 1) ELSE p

parseTerminal(str) ==
    LET s == Trim(str)
        \* positions of a "<", one or more \w, ">"
        tails == {p \in 1..Len(s) :
                    /\ s[p] = "<"
                    /\ WordRunEnd(s, p + 1) > p + 1
                    /\ WordRunEnd(s, p + 1) <= Len(s)
                    /\ s[WordRunEnd(s, p + 1)] = ">"}
        p  == CHOOSE i \in tails : \A j \in tails : i <= j
        q  == WordRunEnd(s, p + 1)
        \* /\s*<(\w+)>\s*/ also takes the white space around the marker
        ms == CHOOSE a \in 1..p :
                 /\ \A j \in a..(p - 1) : IsWs(s[j])
                 /\ \A b \in 1..(a - 1) : \E j \in b..(p - 1) : ~IsWs(s[j])
        me == CHOOSE b \in q..Len(s) :
                 /\ \A j \in (q + 1)..b : IsWs(s[j])
                 /\ (b < Len(s) => ~IsWs(s[b + 1]))
        node == TreeNode(s, "TERMINAL")
    IN  IF s = <<>> THEN NullNode
        ELSE IF tails = {} THEN node
        ELSE [node EXCEPT
                !.movementTail = SubSeq(s, p + 1, q - 1),
                !.label = Trim(SubSeq(s, 1, ms - 1) \o <<" ">> \o SubSeq(s, me + 1, Len(s)))]

\* while (i < str.length && str[i] !== ' ' && str[i] !== '[' && str[i] !== ']') i++
RECURSIVE LabelEnd(_, _)
LabelEnd(str, i) ==
    IF i < Len(str) /\ At(str, i) \notin {" ", "[", "]"} THEN LabelEnd(str, i + 1) ELSE i

\* while (i < str.length && str[i] === ' ') i++
RECURSIVE SkipSpaces(_, _)
SkipSpaces(str, i) ==
    IF i < Len(str) /\ At(str, i) = " " THEN SkipSpaces(str, i + 1) ELSE i

RECURSIVE parseNode(_)
RECURSIVE ParseChildren(_, _, _, _, _)

\* roots.push(node) / node.addChild(node), under the conditions that guard it
PushNode(list, wanted, node) ==
    IF wanted /\ node # NullNode THEN Append(list, node) ELSE list

\* One pass of the loop over the children, the character at i having taken
\* the level from prevLevel to level1.
ChildrenPass(str, i, prevLevel, level1, childStart, kids) ==
    LET boundary  == (prevLevel = 1 /\ level1 = 2) \/ (prevLevel = 1 /\ level1 = 0)
        bracketed == prevLevel = 2 /\ level1 = 1
        start1    == IF boundary THEN i ELSE childStart
    IN  ParseChildren(str, i + 1, level1,
                      IF bracketed THEN i + 1 ELSE start1,
                      PushNode(PushNode(kids,
                                        boundary /\ Trim(Substring(str, childStart, i)) # <<>>,
                                        parseTerminal(Substring(str, childStart, i))),
                               bracketed,
                               parseNode(Substring(str, start1, i + 1))))

\* The loop over the children of a bracketed node:
\* for (; i < str.length && level > 0; i++)
ParseChildren(str, i, level, childStart, kids) ==
    IF ~(i < Len(str) /\ level > 0) THEN kids
    ELSE ChildrenPass(str, i, level,
                      IF At(str, i) = "[" THEN level + 1
                      ELSE IF At(str, i) = "]" THEN level - 1 ELSE level,
                      childStart, kids)

\* parseNode that stops after the label
BracketedNodeLeaf(str, i1, i2) ==
    parseSpecialMarkers(TreeNode(Substring(str, 1, i1),
                                 getNodeTypeFromLabel(Substring(str, 1, i1))))

\* parseNode from the end i1 of the label on, str being trimmed
BracketedNode(str, i1, i2) ==
    IF At(str, i2) = "]"
    THEN parseSpecialMarkers(TreeNode(Substring(str, 1, i1),
                                      getNodeTypeFromLabel(Substring(str, 1, i1))))
    ELSE [parseSpecialMarkers(TreeNode(Substring(str, 1, i1),
                                       getNodeTypeFromLabel(Substring(str, 1, i1))))
            EXCEPT !.children = ParseChildren(str, i2, 1, i2, <<>>)]

TrimmedNode(str) ==
    IF str = <<>> THEN NullNode
    ELSE IF str[1] # "[" THEN parseTerminal(str)
    ELSE BracketedNode(str, LabelEnd(str, 1), SkipSpaces(str, LabelEnd(str, 1)))

parseNode(str0) == TrimmedNode(Trim(str0))

\* while (i < str.length && /\s/.test(str[i])) i++
RECURSIVE SkipWs(_, _)
SkipWs(str, i) ==
    IF i < Len(str) /\ IsWs(At(str, i)) THEN SkipWs(str, i + 1) ELSE i

\* The scan for the bracket that closes the one at i; end stays at i when
\* the level never comes back to 0.
RECURSIVE MatchingEnd(_, _, _, _)
MatchingEnd(str, j, level, dflt) ==
    IF j >= Len(str) THEN dflt
    ELSE IF (IF At(str, j) = "[" THEN level + 1
             ELSE IF At(str, j) = "]" THEN level - 1 ELSE level) = 0
    THEN j
    ELSE MatchingEnd(str, j + 1,
                     IF At(str, j) = "[" THEN level + 1
                     ELSE IF At(str, j) = "]" THEN level - 1 ELSE level, dflt)

\* while (end < str.length && str[end] !== '[' && str[end] !== ']') end++
RECURSIVE BareTextEnd(_, _)
BareTextEnd(str, end) ==
    IF end < Len(str) /\ At(str, end) \notin {"[", "]"}
    THEN BareTextEnd(str, end + 1) ELSE end

\* The branch of the loop body for a "[" at i: the substring up to the
\* matching bracket at end is one root.
BracketRoot(str, i, end, roots) ==
    [i |-> end + 1,
     roots |-> PushNode(roots, TRUE, parseNode(Substring(str, i, end + 1))),
     break |-> FALSE]

\* The branch for anything else: bare text up to the next bracket at end
BareRoot(str, i, end, roots) ==
    [i |-> end,
     roots |-> PushNode(roots, Trim(Substring(str, i, end)) # <<>>,
                        parseTerminal(Substring(str, i, end))),
     break |-> FALSE]

\* The loop body once the white space is skipped
RootsLoopAt(str, i, roots) ==
    IF i >= Len(str) THEN [i |-> i, roots |-> roots, break |-> TRUE]
    ELSE IF At(str, i) = "[" THEN BracketRoot(str, i, MatchingEnd(str, i, 0, i), roots)
    ELSE BareRoot(str, i, BareTextEnd(str, i), roots)

\* One pass through the body of the while loop of parseMultipleRoots, from
\* the loop state (i, roots): the next loop state, and whether the pass
\* left the loop through its break.
RootsLoopBody(str, i, roots) == RootsLoopAt(str, SkipWs(str, i), roots)

RECURSIVE parseMultipleRootsFrom(_, _, _)

\* What follows a pass r from the loop state (i, roots).  A pass that leaves
\* the state as it found it, with the loop condition still true, repeats for
\* ever: hang is TRUE and the call never returns.
AfterPass(str, i, roots, r) ==
    IF r.break THEN [roots |-> r.roots, hang |-> FALSE]
    ELSE IF r.i = i /\ r.roots = roots THEN [roots |-> roots, hang |-> TRUE]
    ELSE parseMultipleRootsFrom(str, r.i, r.roots)

\* The whole loop
parseMultipleRootsFrom(str, i, roots) ==
    IF ~(i < Len(str)) THEN [roots |-> roots, hang |-> FALSE]
    ELSE AfterPass(str, i, roots, RootsLoopBody(str, i, roots))

parseMultipleRoots(str) == parseMultipleRootsFrom(str, 0, <<>>)

ParseTrimmed(str) ==
    IF str = <<>> THEN [roots |-> <<>>, hang |-> FALSE]
    ELSE parseMultipleRoots(balanceBrackets(str))

\* parse(str), as a function of the text: the roots it adds to the cleared
\* tree, or hang when the call never returns.
parse(str0) == ParseTrimmed(Trim(str0))

\* validate(str): error is "" for null, position is -1 for null, missing is
\* the number in "Missing n closing bracket(s)".
RECURSIVE ValidateFrom(_, _, _)
ValidateFrom(str, i, depth) ==
    IF i >= Len(str)
    THEN IF depth > 0
         THEN [valid |-> FALSE, error |-> "Missing closing bracket", missing |-> depth,
               plural |-> depth > 1, position |-> Len(str)]
         ELSE [valid |-> TRUE, error |-> "", missing |-> 0, plural |-> FALSE,
               position |-> -1]
    ELSE IF At(str, i) = "[" THEN ValidateFrom(str, i + 1, depth + 1)
    ELSE IF At(str, i) = "]"
    THEN IF depth - 1 < 0
         THEN [valid |-> FALSE, error |-> "Unexpected closing bracket", missing |-> 0,
               plural |-> FALSE, position |-> i]
         ELSE ValidateFrom(str, i + 1, depth - 1)
    ELSE ValidateFrom(str, i + 1, depth)

\* validate deciding by the totals of the two brackets alone
validateByTotals(str) ==
    LET opens  == Cardinality({i \in 1..Len(str) : str[i] = "["})
        closes == Cardinality({i \in 1..Len(str) : str[i] = "]"})
    IN  IF opens > closes
        THEN [valid |-> FALSE, error |-> "Missing closing bracket",
              missing |-> opens - closes, plural |-> opens - closes > 1,
              position |-> Len(str)]
        ELSE IF opens < closes
        THEN [valid |-> FALSE, error |-> "Unexpected closing bracket", missing |-> 0,
              plural |-> FALSE, position |-> Len(str) - 1]
        ELSE [valid |-> TRUE, error |-> "", missing |-> 0, plural |-> FALSE,
              position |-> -1]

validate(str) ==
    IF Trim(str) = <<>>
    THEN [valid |-> TRUE, error |-> "", missing |-> 0, plural |-> FALSE, position |-> -1]
    ELSE ValidateFrom(str, 0, 0)

\* ------------------------------------------------------------------------
\* BracketSerializer, compact mode (prettyPrint false, includeMovement true)
\* ------------------------------------------------------------------------

RECURSIVE JoinWith(_, _)
JoinWith(parts, sep) ==
    IF parts = <<>> THEN <<>>
    ELSE IF Len(parts) = 1 THEN parts[1]
    ELSE parts[1] \o sep \o JoinWith(Tail(parts), sep)

RECURSIVE serializeNode(_)
serializeNode(node) ==
    IF node.nodeType = "TERMINAL"
    THEN node.label \o (IF node.movementTail # <<>>
                        THEN <<"<">> \o node.movementTail \o <<">">> ELSE <<>>)
    ELSE LET label == node.label
                      \o (IF node.isStarred THEN <<"^">> ELSE <<>>)
                      \o (IF node.movementLabel # <<>>
                          THEN <<"_">> \o node.movementLabel ELSE <<>>)
         IN  IF Len(node.children) = 0 THEN <<"[">> \o label \o <<"]">>
             ELSE <<"[">> \o label \o <<" ">>
                  \o JoinWith([k \in 1..Len(node.children) |->
                                 serializeNode(node.children[k])], <<" ">>)
                  \o <<"]">>

\* serialize(tree), over the root nodes in the order of tree.roots
serializeRoots(rootNodes) ==
    IF rootNodes = <<>> THEN <<>>
    ELSE JoinWith([k \in 1..Len(rootNodes) |-> serializeNode(rootNodes[k])], <<" ">>)

\* BracketSerializer, pretty mode (prettyPrint true, indentSize 2)
RECURSIVE serializeNodePretty(_, _)
serializeNodePretty(node, depth) ==
    IF node.nodeType = "TERMINAL"
    THEN node.label \o (IF node.movementTail # <<>>
                        THEN <<"<">> \o node.movementTail \o <<">">> ELSE <<>>)
    ELSE LET label == node.label
                      \o (IF node.isStarred THEN <<"^">> ELSE <<>>)
                      \o (IF node.movementLabel # <<>>
                          THEN <<"_">> \o node.movementLabel ELSE <<>>)
             childIndent == [k \in 1..((depth + 1) * 2) |-> " "]
         IN  IF Len(node.children) = 0 THEN <<"[">> \o label \o <<"]">>
             ELSE <<"[">> \o label \o <<"\n">>
                  \o JoinWith([k \in 1..Len(node.children) |->
                                 childIndent
                                 \o serializeNodePretty(node.children[k], depth + 1)],
                              <<"\n">>)
                  \o <<"]">>

\* serializePretty(tree), over the root nodes in the order of tree.roots
serializePrettyRoots(rootNodes) ==
    IF rootNodes = <<>> THEN <<>>
    ELSE JoinWith([k \in 1..Len(rootNodes) |-> serializeNodePretty(rootNodes[k], 0)],
                  <<"\n", "\n">>)

\* ------------------------------------------------------------------------
\* Bounds of the model
\* ------------------------------------------------------------------------

\* Node ids are handed out in increasing order and never reused; the model
\* stops creating nodes after this id.
MaxId == 6

\* At most this many animation passes wait for the next frame.
MaxAnims == 1

\* The most things the user does in one run
MaxGestures == 7

\* The most nodes of the forest that carry a label from the edit dialog
MaxEdits == 1

\* ------------------------------------------------------------------------
\* The tree model: SyntaxTree holds tree.roots (node ids, in order); nodes
\* maps the id of every node of the forest to its fields, children as a
\* sequence of ids and parent as an id, 0 for null.
\* ------------------------------------------------------------------------

NoNodes == [i \in {} |-> 0]

Remove(seq, x) == SelectSeq(seq, LAMBDA y : y # x)

SeqToSet(seq) == {seq[k] : k \in 1..Len(seq)}

RECURSIVE ConcatAll(_)
ConcatAll(seqs) == IF seqs = <<>> THEN <<>> ELSE Head(seqs) \o ConcatAll(Tail(seqs))

\* The subtree of node id, as a node that owns its children.
RECURSIVE NodeValue(_, _)
NodeValue(nodes, id) ==
    [label |-> nodes[id].label, nodeType |-> nodes[id].nodeType,
     isStarred |-> nodes[id].isStarred, movementLabel |-> nodes[id].movementLabel,
     movementTail |-> nodes[id].movementTail,
     children |-> [k \in 1..Len(nodes[id].children) |->
                     NodeValue(nodes, nodes[id].children[k])]]

ForestValue(nodes, roots) == [k \in 1..Len(roots) |-> NodeValue(nodes, roots[k])]

\* BracketSerializer.serialize(tree)
serialize(nodes, roots) == serializeRoots(ForestValue(nodes, roots))

\* The ids of node id and of its descendants, node first, children in order.
RECURSIVE SubtreeIds(_, _)
SubtreeIds(nodes, id) ==
    <<id>> \o ConcatAll([k \in 1..Len(nodes[id].children) |->
                           SubtreeIds(nodes, nodes[id].children[k])])

getAllNodes(nodes, roots) ==
    ConcatAll([k \in 1..Len(roots) |-> SubtreeIds(nodes, roots[k])])

\* a.isAncestorOf(b): a is on the parent chain of b
RECURSIVE isAncestorOf(_, _, _)
isAncestorOf(nodes, a, b) ==
    IF nodes[b].parent = 0 THEN FALSE
    ELSE IF nodes[b].parent = a THEN TRUE
    ELSE isAncestorOf(nodes, a, nodes[b].parent)

RECURSIVE CountNodes(_)
CountNodes(values) ==
    IF values = <<>> THEN 0
    ELSE 1 + CountNodes(Head(values).children) + CountNodes(Tail(values))

\* The nodes the parser built receive their ids in the order the parser
\* constructed them: a node before its children, children left to right.
RECURSIVE Materialize(_, _, _)
RECURSIVE MaterializeAll(_, _, _)
Materialize(value, parent, id) ==
    LET kids == MaterializeAll(value.children, id, id + 1)
    IN  [nodes |-> (id :> [label |-> value.label, nodeType |-> value.nodeType,
                           isStarred |-> value.isStarred,
                           movementLabel |-> value.movementLabel,
                           movementTail |-> value.movementTail,
                           children |-> kids.ids, parent |-> parent]) @@ kids.nodes,
         next |-> kids.next]
MaterializeAll(values, parent, id) ==
    IF values = <<>> THEN [nodes |-> NoNodes, ids |-> <<>>, next |-> id]
    ELSE LET h == Materialize(Head(values), parent, id)
             r == MaterializeAll(Tail(values), parent, h.next)
         IN  [nodes |-> h.nodes @@ r.nodes, ids |-> <<id>> \o r.ids, next |-> r.next]

\* ------------------------------------------------------------------------
\* BracketSerializer.serializeWithPositions and findNodeAtPosition, over the
\* forest as ids: positions maps a node id to its range, order lists the ids
\* in the order the Map received them.
\* ------------------------------------------------------------------------

NoPositions == [i \in {} |-> 0]

\* The text of a terminal: its label and its movement tail
TerminalText(node) ==
    node.label \o (IF node.movementTail # <<>>
                   THEN <<"<">> \o node.movementTail \o <<">">> ELSE <<>>)

\* The label of a bracketed node with its markers
MarkedLabel(node) ==
    node.label \o (IF node.isStarred THEN <<"^">> ELSE <<>>)
               \o (IF node.movementLabel # <<>> THEN <<"_">> \o node.movementLabel ELSE <<>>)

RECURSIVE serializeNodeWithPos(_, _, _)
RECURSIVE ChildrenWithPos(_, _, _, _)

\* The loop over the children of a node, acc being the result so far and
\* acc.offset the running offset
ChildrenWithPos(nodes, kids, k, acc) ==
    IF k > Len(kids) THEN acc
    ELSE LET sep == IF k > 1 THEN <<" ">> ELSE <<>>
             c   == serializeNodeWithPos(nodes, kids[k], acc.offset + Len(sep))
         IN  ChildrenWithPos(nodes, kids, k + 1,
                 [text |-> acc.text \o sep \o c.text,
                  offset |-> c.offset,
                  positions |-> acc.positions @@ c.positions,
                  order |-> acc.order \o c.order])

\* serializeNodeWithPos(node), the running offset being offset when it starts
serializeNodeWithPos(nodes, id, offset) ==
    IF nodes[id].nodeType = "TERMINAL"
    THEN [text |-> TerminalText(nodes[id]),
          offset |-> offset + Len(TerminalText(nodes[id])),
          positions |-> (id :> [start |-> offset,
                                end |-> offset + Len(TerminalText(nodes[id]))]),
          order |-> <<id>>]
    ELSE LET open  == <<"[">> \o MarkedLabel(nodes[id])
             gap   == IF Len(nodes[id].children) > 0 THEN <<" ">> ELSE <<>>
             kids  == ChildrenWithPos(nodes, nodes[id].children, 1,
                          [text |-> open \o gap,
                           offset |-> offset + Len(open) + Len(gap),
                           positions |-> NoPositions, order |-> <<>>])
         IN  [text |-> kids.text \o <<"]">>,
              offset |-> kids.offset + 1,
              positions |-> kids.positions
                            @@ (id :> [start |-> offset, end |-> kids.offset + 1]),
              order |-> Append(kids.order, id)]

\* The loop over tree.roots
RECURSIVE RootsWithPos(_, _, _, _)
RootsWithPos(nodes, roots, k, acc) ==
    IF k > Len(roots) THEN acc
    ELSE LET sep == IF k > 1 THEN <<" ">> ELSE <<>>
             c   == serializeNodeWithPos(nodes, roots[k], acc.offset + Len(sep))
         IN  RootsWithPos(nodes, roots, k + 1,
                 [text |-> acc.text \o sep \o c.text,
                  offset |-> c.offset,
                  positions |-> acc.positions @@ c.positions,
                  order |-> acc.order \o c.order])

\* serializeWithPositions(tree)
serializeWithPositions(nodes, roots) ==
    IF roots = <<>>
    THEN [text |-> <<>>, offset |-> 0, positions |-> NoPositions, order |-> <<>>]
    ELSE RootsWithPos(nodes, roots, 1,
             [text |-> <<>>, offset |-> 0, positions |-> NoPositions, order |-> <<>>])

\* cursorPos >= pos.start && cursorPos <= pos.end
InRange(cursorPos, pos) == cursorPos >= pos.start /\ cursorPos <= pos.end

\* The loop of findNodeAtPosition over the entries of the Map from entry k
\* on; best is the match so far (0 for null), smallest its width (-1 for
\* Infinity).
RECURSIVE FindFrom(_, _, _, _, _)
FindFrom(cursorPos, withPos, k, best, smallest) ==
    IF k > Len(withPos.order) THEN best
    ELSE LET pos   == withPos.positions[withPos.order[k]]
             range == pos.end - pos.start
         IN  IF InRange(cursorPos, pos) /\ (smallest = -1 \/ range < smallest)
             THEN FindFrom(cursorPos, withPos, k + 1, withPos.order[k], range)
             ELSE FindFrom(cursorPos, withPos, k + 1, best, smallest)

\* findNodeAtPosition(cursorPos, positions): a node id, 0 for null
findNodeAtPosition(cursorPos, withPos) == FindFrom(cursorPos, withPos, 1, 0, -1)

\* ------------------------------------------------------------------------
\* CanvasManager: tiles, layout, animation.  Coordinates are in eighths of
\* a pixel, so that the halves the layout takes stay whole numbers.
\* ------------------------------------------------------------------------

TILE_WIDTH == 85
TILE_HEIGHT == 40
TERMINAL_WIDTH == 85
TERMINAL_HEIGHT == 34
UNIT_WIDTH == 145
LEVEL_HEIGHT == 105
TOP_MARGIN == 40
CONNECTION_THRESHOLD == 360
DISCONNECT_THRESHOLD == 540
MIN_VERTICAL_GAP == 25
LINE_INSERTION_THRESHOLD == 40
\* startX = Math.max(60, ...)
MIN_START_X == 60
\* canvas.getWidth(): resizeCanvas sets Math.max(400, wrapper width)
CanvasWidth == 400

Px(n) == 8 * n

NoTiles == [i \in {} |-> 0]

\* tile.item(0).width || TILE_WIDTH: the width of the tile's rectangle
RectWidth(nodes, id) ==
    IF id \in DOMAIN nodes /\ nodes[id].nodeType = "TERMINAL"
    THEN Px(TERMINAL_WIDTH) ELSE Px(TILE_WIDTH)

RectHeight(nodes, id) ==
    IF id \in DOMAIN nodes /\ nodes[id].nodeType = "TERMINAL"
    THEN Px(TERMINAL_HEIGHT) ELSE Px(TILE_HEIGHT)

\* tile.getCenterPoint().x, the group being as wide as its rectangle
CenterX(s, id) == s.tiles[id].left + RectWidth(s.nodes, id) \div 2

\* createTileForNode: a new group sits centred on the origin until it is
\* positioned.
createTileForNode(s, id) ==
    [s EXCEPT !.tiles = (id :> [left |-> 0 - RectWidth(s.nodes, id) \div 2,
                                top  |-> 0 - RectHeight(s.nodes, id) \div 2]) @@ s.tiles]

\* removeTileForNode that leaves the tile on the canvas
KeepTileForNode(s, id) == s

\* removeTileForNode
removeTileForNode(s, id) ==
    [s EXCEPT !.tiles = [t \in (DOMAIN s.tiles) \ {id} |-> s.tiles[t]]]

\* The comparator of the sort in relayout.
CompareRoots(s, a, b) ==
    IF a \notin DOMAIN s.tiles \/ b \notin DOMAIN s.tiles THEN 0
    ELSE CenterX(s, a) - CenterX(s, b)

\* Array.prototype.sort with that comparator: a stable insertion sort.
RECURSIVE InsertRoot(_, _, _)
InsertRoot(s, sorted, x) ==
    IF sorted = <<>> THEN <<x>>
    ELSE IF CompareRoots(s, sorted[Len(sorted)], x) > 0
    THEN Append(InsertRoot(s, SubSeq(sorted, 1, Len(sorted) - 1), x), sorted[Len(sorted)])
    ELSE Append(sorted, x)

RECURSIVE SortRoots(_, _, _)
SortRoots(s, done, rest) ==
    IF rest = <<>> THEN done
    ELSE SortRoots(s, InsertRoot(s, done, Head(rest)), Tail(rest))

\* collectLeaves
RECURSIVE collectLeaves(_, _)
collectLeaves(nodes, id) ==
    IF Len(nodes[id].children) = 0 THEN <<id>>
    ELSE ConcatAll([k \in 1..Len(nodes[id].children) |->
                      collectLeaves(nodes, nodes[id].children[k])])

\* calculateLeafCount
calculateLeafCount(nodes, id) == Len(collectLeaves(nodes, id))

\* calculateDepth: the depth of a node below its own root
RECURSIVE DepthOf(_, _)
DepthOf(nodes, id) ==
    IF nodes[id].parent = 0 THEN 0 ELSE 1 + DepthOf(nodes, nodes[id].parent)

IndexOf(seq, x) == CHOOSE k \in 1..Len(seq) : seq[k] = x

\* The centerX of the target of node id, as a set: empty when the node has
\* no tile and so gets no target.  A parent none of whose children has a
\* target would get NaN from the source; every node of the forest has a tile
\* whenever relayout runs, so that a parent always finds a child's target.
RECURSIVE TargetCenter(_, _, _, _)
\* The leaves spaced by the width of a tile
TargetCenterTileSpacing(s, leaves, startX, id) ==
    IF id \notin DOMAIN s.tiles THEN {}
    ELSE IF Len(s.nodes[id].children) = 0
    THEN {startX + (IndexOf(leaves, id) - 1) * Px(TILE_WIDTH) + Px(UNIT_WIDTH) \div 2}
    ELSE LET xs == UNION {TargetCenter(s, leaves, startX, s.nodes[id].children[k]) :
                            k \in 1..Len(s.nodes[id].children)}
             minX == CHOOSE x \in xs : \A y \in xs : x <= y
             maxX == CHOOSE x \in xs : \A y \in xs : x >= y
         IN  IF xs = {} THEN {} ELSE {(minX + maxX) \div 2}

\* A parent over the mean of its children's centres
TargetCenterMean(s, leaves, startX, id) ==
    IF id \notin DOMAIN s.tiles THEN {}
    ELSE IF Len(s.nodes[id].children) = 0
    THEN {startX + (IndexOf(leaves, id) - 1) * Px(UNIT_WIDTH) + Px(UNIT_WIDTH) \div 2}
    ELSE LET xs == UNION {TargetCenter(s, leaves, startX, s.nodes[id].children[k]) :
                            k \in 1..Len(s.nodes[id].children)}
             sum[S \in SUBSET xs] ==
                 IF S = {} THEN 0
                 ELSE LET x == CHOOSE y \in S : TRUE IN x + sum[S \ {x}]
         IN  IF xs = {} THEN {} ELSE {sum[xs] \div Cardinality(xs)}

TargetCenter(s, leaves, startX, id) ==
    IF id \notin DOMAIN s.tiles THEN {}
    ELSE IF Len(s.nodes[id].children) = 0
    THEN {startX + (IndexOf(leaves, id) - 1) * Px(UNIT_WIDTH) + Px(UNIT_WIDTH) \div 2}
    ELSE LET xs == UNION {TargetCenter(s, leaves, startX, s.nodes[id].children[k]) :
                            k \in 1..Len(s.nodes[id].children)}
             minX == CHOOSE x \in xs : \A y \in xs : x <= y
             maxX == CHOOSE x \in xs : \A y \in xs : x >= y
         IN  IF xs = {} THEN {} ELSE {(minX + maxX) \div 2}

\* The targets relayout computes, for the roots in sorted order.
LayoutTargets(s, sorted) ==
    LET all       == getAllNodes(s.nodes, sorted)
        leaves    == ConcatAll([k \in 1..Len(sorted) |-> collectLeaves(s.nodes, sorted[k])])
        totalPx   == Len(leaves) * Px(UNIT_WIDTH)
        firstRoot == sorted[1]
        startX    == IF firstRoot \in DOMAIN s.tiles
                     THEN Max2(Px(MIN_START_X),
                               CenterX(s, firstRoot)
                               - (calculateLeafCount(s.nodes, firstRoot) * Px(UNIT_WIDTH)) \div 2)
                     ELSE Max2(Px(MIN_START_X), (Px(CanvasWidth) - totalPx) \div 2)
        placed    == {id \in SeqToSet(all) : TargetCenter(s, leaves, startX, id) # {}}
    IN  [id \in placed |->
           LET centerX == CHOOSE x \in TargetCenter(s, leaves, startX, id) : TRUE
           IN  [left |-> centerX - RectWidth(s.nodes, id) \div 2,
                top  |-> Px(TOP_MARGIN + DepthOf(s.nodes, id) * LEVEL_HEIGHT),
                centerX |-> centerX]]

\* tile.set({left, top}) for every target whose tile is still on the canvas
ApplyTargets(tiles, targets) ==
    [id \in DOMAIN tiles |->
       IF id \in DOMAIN targets
       THEN [left |-> targets[id].left, top |-> targets[id].top]
       ELSE tiles[id]]

\* The second half of relayout, the roots being sorted
SetTargets(s, animate) ==
    IF animate
    THEN [s EXCEPT !.anims = Append(@, LayoutTargets(s, s.roots))]
    ELSE [s EXCEPT !.tiles = ApplyTargets(@, LayoutTargets(s, s.roots))]

\* relayout(animate): sorts tree.roots in place by the tiles' centres, then
\* sets the targets at once or hands them to an animation pass.
relayout(s, animate) ==
    IF s.suppressRelayout THEN s
    ELSE IF s.roots = <<>> THEN s
    ELSE SetTargets([s EXCEPT !.roots = SortRoots(s, <<>>, s.roots)], animate)

RECURSIVE CreateTiles(_, _)
CreateTiles(s, ids) ==
    IF ids = <<>> THEN s ELSE CreateTiles(createTileForNode(s, Head(ids)), Tail(ids))

\* syncFromTree
syncFromTree(s) ==
    relayout(CreateTiles([s EXCEPT !.tiles = NoTiles], getAllNodes(s.nodes, s.roots)), FALSE)

\* One animation frame in which every pass has run its full duration: each
\* pass, oldest first, puts its targets on the tiles that still exist.
RECURSIVE RunPasses(_, _)
\* The frame in which only the pass that started first writes
RunOldestPassOnly(tiles, passes) ==
    IF passes = <<>> THEN tiles ELSE ApplyTargets(tiles, Head(passes))

RunPasses(tiles, passes) ==
    IF passes = <<>> THEN tiles
    ELSE RunPasses(ApplyTargets(tiles, Head(passes)), Tail(passes))

\* ------------------------------------------------------------------------
\* State
\* ------------------------------------------------------------------------

VARIABLES
    text,               \* bracketInput.value
    nodes, roots,       \* the forest: SyntaxTree
    nextId,             \* the id the next node created receives
    batchMode,          \* SyntaxTree batch flag
    pendingEvents,      \* events queued while in batch mode
    tiles,              \* CanvasManager.nodeToCanvas: node id -> tile position
    anims,              \* animation passes waiting for the next frame
    selectedTile,       \* node id of CanvasManager.selectedTile, 0 for null
    suppressRelayout,   \* CanvasManager._suppressRelayout
    autoSync, isSyncing, textIsFocused, pendingTextSync,   \* SyncEngine flags
    textDebounceTimer,  \* "null", or the state of the timer the field names
    timers,             \* number of debounce timeouts the host still holds
    status,             \* what setStatus last showed
    hung,               \* a handler entered a loop it never leaves
    tick,               \* flips on every pass of such a loop
    ran,                \* the engine code that ran in the latest handler
    delivered,          \* the tree events the listeners got in the latest handler
    deferred,           \* a tree event skipped the text refresh since the last one
    gestures,           \* how many things the user has done so far
    pm,                 \* a parse call taken pass by pass, and its results
    tx                  \* one text taken through validate, parse and serialize

vars == <<text, nodes, roots, nextId, batchMode, pendingEvents, tiles, anims,
          selectedTile, suppressRelayout, autoSync, isSyncing, textIsFocused,
          pendingTextSync, textDebounceTimer, timers, status, hung, tick, ran,
          delivered, deferred, gestures, pm, tx>>

engineVars == <<text, nodes, roots, nextId, batchMode, pendingEvents, tiles, anims,
                selectedTile, suppressRelayout, autoSync, isSyncing, textIsFocused,
                pendingTextSync, textDebounceTimer, timers, status, hung, ran,
                delivered, deferred, gestures>>

\* The state the operations below work on, as one record.
Cur ==
    [text |-> text, nodes |-> nodes, roots |-> roots, nextId |-> nextId,
     batchMode |-> batchMode, pendingEvents |-> pendingEvents, tiles |-> tiles,
     anims |-> anims, selectedTile |-> selectedTile,
     suppressRelayout |-> suppressRelayout, autoSync |-> autoSync,
     isSyncing |-> isSyncing, textIsFocused |-> textIsFocused,
     pendingTextSync |-> pendingTextSync, textDebounceTimer |-> textDebounceTimer,
     timers |-> timers, status |-> status, hung |-> hung, ran |-> <<>>,
     delivered |-> <<>>, deferred |-> deferred]

\* ------------------------------------------------------------------------
\* SyncEngine
\* ------------------------------------------------------------------------

\* setStatus(message, type); missing is the number inside the message
setStatus(s, message, missing, type) ==
    [s EXCEPT !.status = [message |-> message, missing |-> missing, type |-> type]]

\* What a call of serializer.serialize(tree) comes to: the text it returns,
\* or an exception
Returned(str) == [threw |-> FALSE, text |-> str]
Threw == [threw |-> TRUE, text |-> <<>>]

\* syncCanvasToText without its try and catch: the exception ends the call
syncCanvasToTextNoCatch(s, outcome) ==
    IF s.isSyncing THEN s
    ELSE IF outcome.threw
    THEN [s EXCEPT !.isSyncing = TRUE, !.ran = Append(@, "syncCanvasToText")]
    ELSE [setStatus([s EXCEPT !.isSyncing = TRUE,
                              !.text = outcome.text,
                              !.ran = Append(@, "syncCanvasToText"),
                              !.deferred = FALSE],
                    "Ready", 0, "")
            EXCEPT !.isSyncing = FALSE]

\* syncCanvasToText, outcome being what its call of serialize comes to
syncCanvasToTextWith(s, outcome) ==
    IF s.isSyncing THEN s
    ELSE IF outcome.threw
    THEN [s EXCEPT !.isSyncing = FALSE,
                   !.ran = Append(Append(@, "syncCanvasToText"), "console.error")]
    ELSE [setStatus([s EXCEPT !.isSyncing = TRUE,
                              !.text = outcome.text,
                              !.ran = Append(@, "syncCanvasToText"),
                              !.deferred = FALSE],
                    "Ready", 0, "")
            EXCEPT !.isSyncing = FALSE]

\* syncCanvasToText: serialize raises nothing on a forest without a cycle
syncCanvasToText(s) == syncCanvasToTextWith(s, Returned(serialize(s.nodes, s.roots)))

RECURSIVE RemoveTiles(_, _)
\* The tile of the first of the deleted nodes alone is removed
RemoveFirstTile(s, ids) ==
    IF ids = <<>> THEN s ELSE removeTileForNode(s, Head(ids))

RemoveTiles(s, ids) ==
    IF ids = <<>> THEN s ELSE RemoveTiles(removeTileForNode(s, Head(ids)), Tail(ids))

\* The switch of the listener over the event; data is the list of node
\* ids the event carries.
CanvasUpdate(s, event, data) ==
    CASE event \in {"root-added", "nodes-connected"} -> relayout(s, TRUE)
      [] event \in {"nodes-disconnected", "root-removed"} -> relayout(s, TRUE)
      [] event = "nodes-deleted" -> relayout(RemoveTiles(s, data), TRUE)
      [] event = "node-updated" -> s
      [] event = "tree-changed" -> relayout(syncFromTree(s), TRUE)
      [] event = "tree-cleared" -> syncFromTree(s)
      [] OTHER -> s

\* The first half of the listener without the test of the focus
TextUpdateAlways(s) == syncCanvasToText(s)

\* The first half of the listener: the text is refreshed unless the input
\* has the focus.
TextUpdate(s) ==
    IF ~s.textIsFocused THEN syncCanvasToText(s)
    ELSE [s EXCEPT !.pendingTextSync = FALSE, !.deferred = TRUE]

\* The listener without the test of isSyncing
TreeListenerNoGuard(s, event, data) ==
    CanvasUpdate(TextUpdate([s EXCEPT !.ran = Append(@, "listener")]), event, data)

\* The listener setupTreeListeners registers on the tree
TreeListener(s, event, data) ==
    IF s.isSyncing THEN s
    ELSE CanvasUpdate(TextUpdate([s EXCEPT !.ran = Append(@, "listener")]), event, data)

\* canvasManager.onTreeChanged
onTreeChanged(s) ==
    IF ~s.textIsFocused THEN syncCanvasToText(s) ELSE s

\* ------------------------------------------------------------------------
\* SyntaxTree operations; each delivers its event to the listener before it
\* returns, or queues it in batch mode.
\* ------------------------------------------------------------------------

emit(s, event, data) ==
    IF s.batchMode THEN [s EXCEPT !.pendingEvents = Append(@, event)]
    ELSE TreeListener([s EXCEPT !.delivered = Append(@, event)], event, data)

beginBatch(s) == [s EXCEPT !.batchMode = TRUE, !.pendingEvents = <<>>]

endBatch(s) ==
    emit([s EXCEPT !.batchMode = FALSE, !.pendingEvents = <<>>], "tree-changed", <<>>)

clear(s) == emit([s EXCEPT !.nodes = NoNodes, !.roots = <<>>], "tree-cleared", <<>>)

addRoot(s, id) == emit([s EXCEPT !.roots = Append(@, id)], "root-added", <<id>>)

RECURSIVE AddRoots(_, _)
AddRoots(s, ids) == IF ids = <<>> THEN s ELSE AddRoots(addRoot(s, Head(ids)), Tail(ids))

\* The child leaves its parent's children and stays in the roots list.
DetachFromParent(s, child) ==
    LET p == s.nodes[child].parent
    IN  [s EXCEPT !.nodes = [n \in DOMAIN s.nodes |->
                               IF n = p
                               THEN [s.nodes[n] EXCEPT
                                       !.children = Remove(s.nodes[n].children, child)]
                               ELSE IF n = child THEN [s.nodes[n] EXCEPT !.parent = 0]
                               ELSE s.nodes[n]]]

\* The child leaves its parent's children, or the roots list.
Detach(s, child) ==
    LET p == s.nodes[child].parent
    IN  [s EXCEPT !.roots = Remove(s.roots, child),
                  !.nodes = [n \in DOMAIN s.nodes |->
                               IF n = p
                               THEN [s.nodes[n] EXCEPT
                                       !.children = Remove(s.nodes[n].children, child)]
                               ELSE IF n = child THEN [s.nodes[n] EXCEPT !.parent = 0]
                               ELSE s.nodes[n]]]

connect(s, parent, child) ==
    LET s1 == Detach(s, child)
    IN  emit([s1 EXCEPT !.nodes[parent].children = Append(@, child),
                        !.nodes[child].parent = parent],
             "nodes-connected", <<parent, child>>)

disconnect(s, child) ==
    IF s.nodes[child].parent = 0 THEN s
    ELSE LET s1 == Detach(s, child)
         IN  emit([s1 EXCEPT !.roots = Append(@, child)], "nodes-disconnected", <<child>>)

deleteNode(s, node) ==
    LET gone == SubtreeIds(s.nodes, node)
        s1   == Detach(s, node)
    IN  emit([s1 EXCEPT !.nodes = [n \in (DOMAIN s1.nodes) \ SeqToSet(gone) |->
                                     s1.nodes[n]]],
             "nodes-deleted", gone)

updateLabel(s, node, label) ==
    emit([s EXCEPT !.nodes[node].label = label,
                   !.nodes[node].nodeType =
                       IF @ = "TERMINAL" THEN @ ELSE getNodeTypeFromLabel(label)],
         "node-updated", <<node>>)

\* The end of parse: the roots r the parser built enter the tree as the
\* nodes m, unless the loop that builds them never ends.
AddParsed(s, r, m) ==
    IF r.hang THEN [s EXCEPT !.hung = TRUE, !.nextId = m.next]
    ELSE endBatch(AddRoots([s EXCEPT !.nodes = m.nodes, !.nextId = m.next], m.ids))

ParseBalanced(s, r) == AddParsed(s, r, MaterializeAll(r.roots, 0, s.nextId))

\* parse after tree.clear() without tree.beginBatch()
ParseTrimmedIntoNoBatch(s, str) ==
    IF str = <<>> THEN s
    ELSE ParseBalanced(s, parseMultipleRoots(balanceBrackets(str)))

\* parse after tree.clear(), str being trimmed
ParseTrimmedInto(s, str) ==
    IF str = <<>> THEN s
    ELSE ParseBalanced(beginBatch(s), parseMultipleRoots(balanceBrackets(str)))

\* BracketParser.parse(str, tree) on the engine's tree
parseInto(s, str0) == ParseTrimmedInto(clear(s), Trim(str0))

\* The status syncTextToCanvas shows after the rebuild
ShowValidation(s, validation) ==
    IF ~validation.valid
    THEN setStatus(s, validation.error, validation.missing, "warning")
    ELSE setStatus(s, "Synced", 0, "")

\* syncTextToCanvas from the return of parse on, isSyncing left as it is
AfterParseNoReset(s, validation) ==
    IF s.hung THEN s ELSE ShowValidation(syncFromTree(s), validation)

\* syncTextToCanvas from the return of parse on
AfterParse(s, validation) ==
    IF s.hung THEN s
    ELSE [ShowValidation(syncFromTree(s), validation) EXCEPT !.isSyncing = FALSE]

\* syncTextToCanvas that does not look at autoSync
syncTextToCanvasAlways(s) ==
    IF s.isSyncing THEN s
    ELSE AfterParse(parseInto([s EXCEPT !.isSyncing = TRUE,
                                        !.ran = Append(@, "syncTextToCanvas")],
                              Trim(s.text)),
                    validate(Trim(s.text)))

\* syncTextToCanvas
syncTextToCanvas(s) ==
    IF ~s.autoSync \/ s.isSyncing THEN s
    ELSE AfterParse(parseInto([s EXCEPT !.isSyncing = TRUE,
                                        !.ran = Append(@, "syncTextToCanvas")],
                              Trim(s.text)),
                    validate(Trim(s.text)))

\* syncTextToCanvas when an exception is raised in it.  Raised in
\* parseMultipleRoots, which a blank text does not reach, parse catches it:
\* the tree stays cleared, endBatch runs, parse returns and the canvas is
\* rebuilt.  Raised in syncFromTree
\* after the canvas is cleared, the catch of syncTextToCanvas shows it.
syncTextToCanvasRaising(s, where) ==
    IF ~s.autoSync \/ s.isSyncing THEN s
    ELSE IF where = "parse" /\ Trim(s.text) = <<>> THEN syncTextToCanvas(s)
    ELSE IF where = "parse"
    THEN AfterParse(endBatch(beginBatch(clear([s EXCEPT !.isSyncing = TRUE,
                                                        !.ran = Append(@, "syncTextToCanvas")]))),
                    validate(Trim(s.text)))
    ELSE [setStatus([parseInto([s EXCEPT !.isSyncing = TRUE,
                                         !.ran = Append(@, "syncTextToCanvas")],
                               Trim(s.text))
                        EXCEPT !.tiles = NoTiles],
                    "Parse error", 0, "error")
            EXCEPT !.isSyncing = FALSE]

forceCanvasToText(s) ==
    [syncCanvasToText([s EXCEPT !.isSyncing = FALSE]) EXCEPT !.isSyncing = s.isSyncing]

\* forceCanvasToText, outcome being what the call of serialize comes to
forceCanvasToTextWith(s, outcome) ==
    [syncCanvasToTextWith([s EXCEPT !.isSyncing = FALSE], outcome)
        EXCEPT !.isSyncing = s.isSyncing]

RestoreSyncing(s, wasSyncing) ==
    IF s.hung THEN s ELSE [s EXCEPT !.isSyncing = wasSyncing]

forceTextToCanvas(s) ==
    RestoreSyncing(syncTextToCanvas([s EXCEPT !.isSyncing = FALSE]), s.isSyncing)

forceTextToCanvasRaising(s, where) ==
    RestoreSyncing(syncTextToCanvasRaising([s EXCEPT !.isSyncing = FALSE], where), s.isSyncing)

setAutoSync(s, enabled) ==
    IF enabled THEN syncCanvasToText([s EXCEPT !.autoSync = enabled])
    ELSE [s EXCEPT !.autoSync = enabled]

\* clearTimeout(this.textDebounceTimer): the field keeps the id of the
\* timer, which no longer fires.  The log records a call that cancels a
\* timer still pending.
clearDebounceTimer(s) ==
    IF s.textDebounceTimer = "null" THEN s
    ELSE IF s.textDebounceTimer = "live"
    THEN [s EXCEPT !.timers = @ - 1, !.textDebounceTimer = "dead",
                   !.ran = Append(@, "clearTimeout")]
    ELSE s

\* The 'focus' listener
onFocus(s) == setStatus([s EXCEPT !.textIsFocused = TRUE], "Editing...", 0, "editing")

\* The 'blur' listener
FlushDone(s) ==
    IF s.hung THEN s ELSE setStatus([s EXCEPT !.pendingTextSync = FALSE], "Ready", 0, "")

onBlur(s) ==
    IF s.pendingTextSync
    THEN FlushDone(syncTextToCanvas([s EXCEPT !.textIsFocused = FALSE]))
    ELSE setStatus([s EXCEPT !.textIsFocused = FALSE], "Ready", 0, "")

\* The 'input' listener without its clearTimeout
onInputNoCancel(s) ==
    IF ~s.autoSync THEN s
    ELSE [s EXCEPT !.timers = @ + 1, !.textDebounceTimer = "live",
                   !.ran = Append(@, "setTimeout")]

\* The 'input' listener, the input's value being the new text already
onInput(s) ==
    IF ~s.autoSync THEN s
    ELSE LET s1 == clearDebounceTimer(s)
             validation == validate(s1.text)
             s2 == IF ~validation.valid
                   THEN setStatus(s1, validation.error, validation.missing, "error")
                   ELSE setStatus(s1, "Editing...", 0, "editing")
         IN  [s2 EXCEPT !.timers = @ + 1, !.textDebounceTimer = "live",
                        !.ran = Append(@, "setTimeout")]

\* The 'keydown' listener without its clearTimeout
onEnterNoCancel(s) == syncTextToCanvas([s EXCEPT !.ran = Append(@, "enter")])

\* The 'keydown' listener for Enter without Shift
onEnter(s) ==
    syncTextToCanvas(clearDebounceTimer([s EXCEPT !.ran = Append(@, "enter")]))

\* The callback of the debounce timeout
onDebounce(s) == syncTextToCanvas([s EXCEPT !.ran = Append(@, "debounce")])

\* ------------------------------------------------------------------------
\* CanvasManager handlers
\* ------------------------------------------------------------------------

\* handleTileDoubleClick(tile, node), t being the node id of the tile
handleTileDoubleClick(s, t) ==
    IF s.selectedTile = 0 THEN [s EXCEPT !.selectedTile = t]
    ELSE IF s.selectedTile = t THEN [s EXCEPT !.selectedTile = 0]
    ELSE LET sel    == s.selectedTile
             found  == sel \in DOMAIN s.nodes /\ t \in DOMAIN s.nodes
             parent == IF s.tiles[sel].top < s.tiles[t].top THEN sel ELSE t
             child  == IF parent = sel THEN t ELSE sel
             s1     == IF found /\ ~isAncestorOf(s.nodes, child, parent)
                       THEN connect(s, parent, child) ELSE s
         IN  [s1 EXCEPT !.selectedTile = 0]

\* The document 'keydown' listener for Delete or Backspace;
\* isEditingText() is the bracket input having the focus.
onDeleteKey(s) ==
    IF s.selectedTile # 0 /\ ~s.textIsFocused
    THEN IF s.selectedTile \in DOMAIN s.nodes
         THEN [deleteNode(s, s.selectedTile) EXCEPT !.selectedTile = 0]
         ELSE s
    ELSE s

\* The 'mousedown' listener of the connection line above child
onLineMouseDown(s, child) == disconnect(s, child)

\* editTile's dialog closed with OK
closeDialog(s, node, finalText) == updateLabel(s, node, finalText)

\* ------------------------------------------------------------------------
\* CanvasManager: auto-connection on drag release and on palette drops
\* ------------------------------------------------------------------------

\* tile.getCenterPoint()
Center(s, id) ==
    [x |-> CenterX(s, id), y |-> s.tiles[id].top + RectHeight(s.nodes, id) \div 2]

\* Math.sqrt(dx * dx + dy * dy) < limit, limit in pixels
Nearer(dx, dy, limit) ==
    /\ Abs(dx) < Px(limit) /\ Abs(dy) < Px(limit)
    /\ dx * dx + dy * dy < Px(limit) * Px(limit)

\* The distance compared with the threshold of the reparenting
FartherThanReparent(dx, dy, limit) ==
    \/ Abs(dx) > Px(CONNECTION_THRESHOLD) \/ Abs(dy) > Px(CONNECTION_THRESHOLD)
    \/ dx * dx + dy * dy > Px(CONNECTION_THRESHOLD) * Px(CONNECTION_THRESHOLD)

\* Math.sqrt(dx * dx + dy * dy) > limit
Farther(dx, dy, limit) ==
    \/ Abs(dx) > Px(limit) \/ Abs(dy) > Px(limit)
    \/ dx * dx + dy * dy > Px(limit) * Px(limit)

\* pointToLineDistance: null, or the distance as the fraction num / den its
\* square is
pointToLineDistance(px, py, x1, y1, x2, y2) ==
    LET dx == x2 - x1
        dy == y2 - y1
        lengthSquared == dx * dx + dy * dy
        dot   == (px - x1) * dx + (py - y1) * dy
        cross == Abs((px - x1) * dy - (py - y1) * dx)
    IN  IF lengthSquared = 0
        THEN [isNull |-> FALSE,
              num |-> ToBig((px - x1) * (px - x1) + (py - y1) * (py - y1)),
              den |-> <<1>>]
        ELSE IF 10 * dot < lengthSquared \/ 10 * dot > 9 * lengthSquared
        THEN [isNull |-> TRUE, num |-> <<0>>, den |-> <<1>>]
        ELSE [isNull |-> FALSE, num |-> BigMul(ToBig(cross), ToBig(cross)),
              den |-> ToBig(lengthSquared)]

\* a < b for two distances
DistanceLess(a, b) == BigLess(BigMul(a.num, b.den), BigMul(b.num, a.den))

\* distance < limit, limit in pixels
DistanceBelow(a, limit) ==
    DistanceLess(a, [num |-> ToBig(Px(limit) * Px(limit)), den |-> <<1>>])

\* The pairs (parentNode, childNode) in the order the loops of
\* findNearestConnectionLine meet them
ConnectionLines(s) ==
    ConcatAll([k \in 1..Len(getAllNodes(s.nodes, s.roots)) |->
        [j \in 1..Len(s.nodes[getAllNodes(s.nodes, s.roots)[k]].children) |->
            [parent |-> getAllNodes(s.nodes, s.roots)[k],
             child  |-> s.nodes[getAllNodes(s.nodes, s.roots)[k]].children[j]]]])

NoLine == [parent |-> 0, child |-> 0]

\* The body of the inner loop for one pair: the best match after it
LineStep(s, node, line, best) ==
    IF \/ line.parent = node \/ line.child = node
       \/ isAncestorOf(s.nodes, node, line.parent)
       \/ s.nodes[line.parent].nodeType = "TERMINAL"
       \/ line.parent \notin DOMAIN s.tiles \/ line.child \notin DOMAIN s.tiles
    THEN best
    ELSE LET nodeCenter   == Center(s, node)
             parentCenter == Center(s, line.parent)
             childCenter  == Center(s, line.child)
             distance == pointToLineDistance(nodeCenter.x, nodeCenter.y,
                                             parentCenter.x, parentCenter.y,
                                             childCenter.x, childCenter.y)
             minY == Min2(parentCenter.y, childCenter.y)
             maxY == Max2(parentCenter.y, childCenter.y)
             isVerticallyBetween ==
                 /\ nodeCenter.y > minY + Px(MIN_VERTICAL_GAP)
                 /\ nodeCenter.y < maxY - Px(MIN_VERTICAL_GAP)
         IN  IF /\ isVerticallyBetween
                /\ ~distance.isNull
                /\ DistanceBelow(distance, LINE_INSERTION_THRESHOLD)
                /\ (best.line = NoLine \/ DistanceLess(distance, best.distance))
             THEN [line |-> line, distance |-> distance]
             ELSE best

RECURSIVE NearestFrom(_, _, _, _, _)
NearestFrom(s, node, lines, k, best) ==
    IF k > Len(lines) THEN best.line
    ELSE NearestFrom(s, node, lines, k + 1, LineStep(s, node, lines[k], best))

\* findNearestConnectionLine(node, tile): a pair, or NoLine for null
findNearestConnectionLine(s, node) ==
    NearestFrom(s, node, ConnectionLines(s), 1,
                [line |-> NoLine, distance |-> [isNull |-> TRUE, num |-> <<0>>, den |-> <<1>>]])

\* The loop body without its isAncestorOf test
CandidateStepNoCycleCheck(s, childNode, id, best) ==
    IF \/ id \notin DOMAIN s.tiles \/ id \notin DOMAIN s.nodes \/ id = childNode
       \/ s.nodes[id].nodeType = "TERMINAL"
       \/ Center(s, id).y >= Center(s, childNode).y - Px(MIN_VERTICAL_GAP)
    THEN best
    ELSE LET dx == Abs(Center(s, id).x - Center(s, childNode).x)
             dy == Abs(Center(s, id).y - Center(s, childNode).y)
             score == 3 * dx + 2 * dy
         IN  IF Nearer(dx, dy, CONNECTION_THRESHOLD)
                /\ (best.node = 0 \/ score < best.score)
             THEN [node |-> id, score |-> score]
             ELSE best

\* The body of the loop of findBestParentCandidate for the tile of node id;
\* twice the score, HORIZONTAL_WEIGHT being 1.5
CandidateStep(s, childNode, id, best) ==
    IF \/ id \notin DOMAIN s.tiles \/ id \notin DOMAIN s.nodes \/ id = childNode
       \/ isAncestorOf(s.nodes, childNode, id)
       \/ s.nodes[id].nodeType = "TERMINAL"
       \/ Center(s, id).y >= Center(s, childNode).y - Px(MIN_VERTICAL_GAP)
    THEN best
    ELSE LET dx == Abs(Center(s, id).x - Center(s, childNode).x)
             dy == Abs(Center(s, id).y - Center(s, childNode).y)
             score == 3 * dx + 2 * dy
         IN  IF Nearer(dx, dy, CONNECTION_THRESHOLD)
                /\ (best.node = 0 \/ score < best.score)
             THEN [node |-> id, score |-> score]
             ELSE best

\* The loop over nodeToCanvas: tiles are made in the order of the ids
RECURSIVE CandidateFrom(_, _, _, _)
CandidateFrom(s, childNode, id, best) ==
    IF id >= s.nextId THEN best.node
    ELSE CandidateFrom(s, childNode, id + 1, CandidateStep(s, childNode, id, best))

\* findBestParentCandidate(childNode, childTile): a node id, or 0 for null
findBestParentCandidate(s, childNode) ==
    CandidateFrom(s, childNode, 1, [node |-> 0, score |-> 0])

\* The body of the loop of findBestParentCandidateAtPoint for the tile of
\* node id
CandidateStepAtPoint(s, x, y, id, best) ==
    IF \/ id \notin DOMAIN s.tiles \/ id \notin DOMAIN s.nodes
       \/ s.nodes[id].nodeType = "TERMINAL"
       \/ Center(s, id).y >= y - Px(MIN_VERTICAL_GAP)
    THEN best
    ELSE LET dx == Abs(Center(s, id).x - x)
             dy == Abs(Center(s, id).y - y)
             score == 3 * dx + 2 * dy
         IN  IF Nearer(dx, dy, CONNECTION_THRESHOLD)
                /\ (best.node = 0 \/ score < best.score)
             THEN [node |-> id, score |-> score]
             ELSE best

RECURSIVE CandidateFromAtPoint(_, _, _, _, _)
CandidateFromAtPoint(s, x, y, id, best) ==
    IF id >= s.nextId THEN best.node
    ELSE CandidateFromAtPoint(s, x, y, id + 1, CandidateStepAtPoint(s, x, y, id, best))

\* findBestParentCandidateAtPoint(x, y): a node id, or 0 for null
findBestParentCandidateAtPoint(s, x, y) ==
    CandidateFromAtPoint(s, x, y, 1, [node |-> 0, score |-> 0])

\* The body of the inner loop of findNearestConnectionLineAtPoint
LineStepAtPoint(s, x, y, line, best) ==
    IF \/ s.nodes[line.parent].nodeType = "TERMINAL"
       \/ line.parent \notin DOMAIN s.tiles \/ line.child \notin DOMAIN s.tiles
    THEN best
    ELSE LET parentCenter == Center(s, line.parent)
             childCenter  == Center(s, line.child)
             distance == pointToLineDistance(x, y, parentCenter.x, parentCenter.y,
                                             childCenter.x, childCenter.y)
             minY == Min2(parentCenter.y, childCenter.y)
             maxY == Max2(parentCenter.y, childCenter.y)
             isVerticallyBetween ==
                 /\ y > minY + Px(MIN_VERTICAL_GAP)
                 /\ y < maxY - Px(MIN_VERTICAL_GAP)
         IN  IF /\ isVerticallyBetween
                /\ ~distance.isNull
                /\ DistanceBelow(distance, LINE_INSERTION_THRESHOLD)
                /\ (best.line = NoLine \/ DistanceLess(distance, best.distance))
             THEN [line |-> line, distance |-> distance]
             ELSE best

RECURSIVE NearestFromAtPoint(_, _, _, _, _, _)
NearestFromAtPoint(s, x, y, lines, k, best) ==
    IF k > Len(lines) THEN best.line
    ELSE NearestFromAtPoint(s, x, y, lines, k + 1,
                            LineStepAtPoint(s, x, y, lines[k], best))

\* findNearestConnectionLineAtPoint(x, y): a pair, or NoLine for null
findNearestConnectionLineAtPoint(s, x, y) ==
    NearestFromAtPoint(s, x, y, ConnectionLines(s), 1,
                       [line |-> NoLine,
                        distance |-> [isNull |-> TRUE, num |-> <<0>>, den |-> <<1>>]])

\* What a preview shows: the two tiles of an insertion, the tile of the
\* parent to be, or nothing
Shown(kind, parent, child) == [kind |-> kind, parent |-> parent, child |-> child]

\* handleAutoConnectionPreview(node, tile)
handleAutoConnectionPreview(s, node) ==
    IF findNearestConnectionLine(s, node) # NoLine
    THEN Shown("insertion", findNearestConnectionLine(s, node).parent,
               findNearestConnectionLine(s, node).child)
    ELSE IF findBestParentCandidate(s, node) # 0
    THEN Shown("connection", findBestParentCandidate(s, node), 0)
    ELSE Shown("nothing", 0, 0)

\* A preview that looks for a parent before it looks for a line
showDropPreviewParentFirst(s, x, y) ==
    IF findBestParentCandidateAtPoint(s, x, y) # 0
    THEN Shown("connection", findBestParentCandidateAtPoint(s, x, y), 0)
    ELSE IF findNearestConnectionLineAtPoint(s, x, y) # NoLine
    THEN Shown("insertion", findNearestConnectionLineAtPoint(s, x, y).parent,
               findNearestConnectionLineAtPoint(s, x, y).child)
    ELSE Shown("nothing", 0, 0)

\* showDropPreview(x, y)
showDropPreview(s, x, y) ==
    IF findNearestConnectionLineAtPoint(s, x, y) # NoLine
    THEN Shown("insertion", findNearestConnectionLineAtPoint(s, x, y).parent,
               findNearestConnectionLineAtPoint(s, x, y).child)
    ELSE IF findBestParentCandidateAtPoint(s, x, y) # 0
    THEN Shown("connection", findBestParentCandidateAtPoint(s, x, y), 0)
    ELSE Shown("nothing", 0, 0)

\* if (node.parent) this.tree.disconnect(node)
DisconnectIfChild(s, node) ==
    IF s.nodes[node].parent # 0 THEN disconnect(s, node) ELSE s

\* The insertion branch of finalizeAutoConnection
InsertBetween(s, node, line) ==
    connect(connect(disconnect(DisconnectIfChild(s, node), line.child),
                    line.parent, node),
            node, line.child)

\* The branches of finalizeAutoConnection without an insertion
ConnectOrDisconnect(s, node, candidate) ==
    IF candidate # 0
    THEN IF s.nodes[node].parent # candidate
         THEN connect(DisconnectIfChild(s, node), candidate, node)
         ELSE s
    ELSE IF s.nodes[node].parent # 0 /\ s.nodes[node].parent \in DOMAIN s.tiles
    THEN IF Farther(Center(s, s.nodes[node].parent).x - Center(s, node).x,
                    Center(s, s.nodes[node].parent).y - Center(s, node).y,
                    DISCONNECT_THRESHOLD)
         THEN disconnect(s, node)
         ELSE s
    ELSE s

\* finalizeAutoConnection looking for a parent before it looks for a line
finalizeAutoConnectionParentFirst(s, node) ==
    IF findBestParentCandidate(s, node) # 0
    THEN ConnectOrDisconnect(s, node, findBestParentCandidate(s, node))
    ELSE IF findNearestConnectionLine(s, node) # NoLine
    THEN InsertBetween(s, node, findNearestConnectionLine(s, node))
    ELSE ConnectOrDisconnect(s, node, 0)

\* finalizeAutoConnection(node, tile)
finalizeAutoConnection(s, node) ==
    IF findNearestConnectionLine(s, node) # NoLine
    THEN InsertBetween(s, node, findNearestConnectionLine(s, node))
    ELSE ConnectOrDisconnect(s, node, findBestParentCandidate(s, node))

\* finalizeAutoConnectionForDrop(node, tile)
finalizeAutoConnectionForDrop(s, node) ==
    IF findNearestConnectionLine(s, node) # NoLine
    THEN LET line == findNearestConnectionLine(s, node)
         IN  connect(connect(disconnect(s, line.child), line.parent, node),
                     node, line.child)
    ELSE IF findBestParentCandidate(s, node) # 0
    THEN connect(s, findBestParentCandidate(s, node), node)
    ELSE s

\* The tiles of the subtree of node moved by (deltaX, deltaY), as
\* moveSubtree leaves them when the tile of node has been dragged by as much
RECURSIVE MovedWith(_, _)
MovedWith(s, node) ==
    {node} \cup UNION {MovedWith(s, s.nodes[node].children[k]) :
                         k \in {j \in 1..Len(s.nodes[node].children) :
                                   s.nodes[node].children[j] \in DOMAIN s.tiles}}

\* The drag of the tile of node that ends with its centre at point p
DragTo(s, node, p) ==
    LET deltaX == p.x - Center(s, node).x
        deltaY == p.y - Center(s, node).y
    IN  [s EXCEPT !.tiles = [t \in DOMAIN s.tiles |->
                               IF t \in MovedWith(s, node)
                               THEN [left |-> s.tiles[t].left + deltaX,
                                     top  |-> s.tiles[t].top + deltaY]
                               ELSE s.tiles[t]]]

\* The places the node can take among its siblings
Reorderings(s, node) ==
    IF s.nodes[node].parent = 0 THEN {<<>>}
    ELSE LET others == Remove(s.nodes[s.nodes[node].parent].children, node)
         IN  {SubSeq(others, 1, k) \o <<node>> \o SubSeq(others, k + 1, Len(others)) :
                k \in 0..Len(others)}

\* node.reorderByPosition(), children being the order it gives the siblings
reorderByPosition(s, node, children) ==
    IF s.nodes[node].parent = 0 THEN s
    ELSE [s EXCEPT !.nodes = [n \in DOMAIN s.nodes |->
                                IF n = s.nodes[node].parent
                                THEN [s.nodes[n] EXCEPT !.children = children]
                                ELSE s.nodes[n]]]

\* The 'mouseup' listener of a tile after a drag, from the call of
\* node.reorderByPosition() on
AfterRelease(s, node, children) ==
    onTreeChanged(relayout(reorderByPosition(s, node, children), TRUE))

\* new TreeNode(label, nodeType) as the forest holds it: no children, no parent
NewNode(label, nodeType) ==
    [label |-> label, nodeType |-> nodeType, isStarred |-> FALSE,
     movementLabel |-> <<>>, movementTail |-> <<>>, children |-> <<>>, parent |-> 0]

\* tree.createNode(label, nodeType)
createNode(s, label, nodeType) ==
    addRoot([s EXCEPT !.nodes = (s.nextId :> NewNode(label, nodeType)) @@ @,
                      !.nextId = @ + 1],
            s.nextId)

\* positionTileAtDropImmediate(tile, x, y)
positionTileAtDropImmediate(s, id, x, y) ==
    [s EXCEPT !.tiles[id] = [left |-> x - RectWidth(s.nodes, id) \div 2,
                             top  |-> y - RectHeight(s.nodes, id) \div 2]]

\* handleDrop for type 'terminal', node being the id of the new node
DropTerminal(s, node, x, y) ==
    onTreeChanged(finalizeAutoConnectionForDrop(
        positionTileAtDropImmediate(createTileForNode(s, node), node, x, y), node))

\* A node of type 'pos' left without its terminal child
NoPlaceholder(s, node) == s

\* The terminal child handleDrop gives a node of type 'pos': new
\* TreeNode('...', NodeType.TERMINAL), connected and placed one level below
AddPlaceholder(s, node) ==
    LET terminal == s.nextId
        s1 == [s EXCEPT !.suppressRelayout = TRUE,
                        !.nodes = (terminal :> NewNode(<<".", ".", ".">>, "TERMINAL")) @@ @,
                        !.nextId = @ + 1]
        s2 == createTileForNode(connect(s1, node, terminal), terminal)
    IN  [positionTileAtDropImmediate(s2, terminal, Center(s2, node).x,
                                     Center(s2, node).y + Px(LEVEL_HEIGHT))
           EXCEPT !.suppressRelayout = FALSE]

\* handleDrop for the other types
DropNode(s, type, node, x, y) ==
    LET s1 == finalizeAutoConnectionForDrop(
                  positionTileAtDropImmediate(createTileForNode(s, node), node, x, y),
                  node)
    IN  onTreeChanged(relayout(IF type = "pos" THEN AddPlaceholder(s1, node) ELSE s1,
                               TRUE))

\* handleDrop(dropData, x, y)
handleDrop(s, type, value, x, y) ==
    IF type = "terminal"
    THEN DropTerminal(createNode(s, value, "TERMINAL"), s.nextId, x, y)
    ELSE DropNode(createNode(s, value,
                             IF type = "pos" THEN "POS"
                             ELSE IF type = "phrase" THEN "PHRASE" ELSE "CLAUSE"),
                  type, s.nextId, x, y)

\* ------------------------------------------------------------------------
\* What the user and the host do
\* ------------------------------------------------------------------------

\* The texts the user leaves in the input after a keystroke.
TypedTexts ==
    { <<>>,
      <<"[", "a", " ", "b">>,
      <<"[", "a", "]", " ", "[", "b", "]">>,
      <<"[", "a", " ", "[", "b", "]", " ", "[", "c", "]", "]">>,
      <<"]", "[">> }

\* The labels the user gives a node in the edit dialog.
EditLabels == { <<"x">> }

Commit(r) ==
    /\ text' = r.text
    /\ nodes' = r.nodes
    /\ roots' = r.roots
    /\ nextId' = r.nextId
    /\ batchMode' = r.batchMode
    /\ pendingEvents' = r.pendingEvents
    /\ tiles' = r.tiles
    /\ anims' = r.anims
    /\ selectedTile' = r.selectedTile
    /\ suppressRelayout' = r.suppressRelayout
    /\ autoSync' = r.autoSync
    /\ isSyncing' = r.isSyncing
    /\ textIsFocused' = r.textIsFocused
    /\ pendingTextSync' = r.pendingTextSync
    /\ textDebounceTimer' = r.textDebounceTimer
    /\ timers' = r.timers
    /\ status' = r.status
    /\ hung' = r.hung
    /\ ran' = r.ran
    /\ delivered' = r.delivered
    /\ deferred' = r.deferred
    /\ UNCHANGED <<tick, pm, tx>>

\* One more thing the user does
Gesture ==
    /\ gestures < MaxGestures
    /\ gestures' = gestures + 1

\* A parse of the current text would stay within the ids of the model.
IdsLeftToParse ==
    nextId + CountNodes(parse(text).roots) <= MaxId + 1

AnimsLeft == Len(anims) < MaxAnims

Focus ==
    /\ ~hung /\ Gesture /\ ~textIsFocused
    /\ Commit(onFocus(Cur))

Blur ==
    /\ ~hung /\ Gesture /\ textIsFocused
    /\ Commit(onBlur(Cur))

Input(t) ==
    /\ ~hung /\ Gesture /\ textIsFocused /\ t # text
    /\ Commit(onInput([Cur EXCEPT !.text = t]))

KeyEnter ==
    /\ ~hung /\ Gesture /\ textIsFocused
    /\ autoSync => IdsLeftToParse
    /\ Commit(onEnter(Cur))

\* The host runs the callback of one of the timeouts it holds: the one the
\* engine's field names, or another one.
TimerFire ==
    /\ ~hung /\ UNCHANGED gestures /\ timers > 0
    /\ autoSync => IdsLeftToParse
    /\ \E named \in BOOLEAN :
         /\ named => textDebounceTimer = "live"
         /\ ~named => timers > (IF textDebounceTimer = "live" THEN 1 ELSE 0)
         /\ Commit(onDebounce([Cur EXCEPT !.timers = @ - 1,
                                          !.textDebounceTimer =
                                              IF named THEN "dead" ELSE @]))

\* The sync toggle button
SetAutoSync ==
    /\ ~hung /\ Gesture
    /\ Commit(setAutoSync(Cur, ~autoSync))

ForceTextToCanvas ==
    /\ ~hung /\ Gesture
    /\ autoSync => IdsLeftToParse
    /\ Commit(forceTextToCanvas(Cur))

ForceCanvasToText ==
    /\ ~hung /\ Gesture
    /\ Commit(forceCanvasToText(Cur))

DoubleClick(t) ==
    /\ ~hung /\ Gesture /\ t \in DOMAIN tiles /\ AnimsLeft
    /\ Commit(handleTileDoubleClick(Cur, t))

DeleteKey ==
    /\ ~hung /\ Gesture /\ AnimsLeft
    /\ Commit(onDeleteKey(Cur))

\* A click on the connection line between a node and its parent
LineClick(child) ==
    /\ ~hung /\ Gesture /\ AnimsLeft
    /\ child \in DOMAIN nodes /\ child \in DOMAIN tiles
    /\ nodes[child].parent # 0 /\ nodes[child].parent \in DOMAIN tiles
    /\ Commit(onLineMouseDown(Cur, child))

\* Ctrl+click on a tile, a new label, OK.  The dialog's input takes the
\* focus, so the bracket input has lost it.
EditLabel(node, label) ==
    /\ ~hung /\ Gesture /\ ~textIsFocused
    /\ node \in DOMAIN nodes /\ node \in DOMAIN tiles
    /\ label # nodes[node].label
    /\ Cardinality({n \in DOMAIN nodes : nodes[n].label \in EditLabels}) < MaxEdits
    /\ Commit(closeDialog(Cur, node, label))

\* requestAnimationFrame: the frame that ends every waiting pass
AnimFrame ==
    /\ ~hung /\ UNCHANGED gestures /\ anims # <<>>
    /\ Commit([Cur EXCEPT !.tiles = RunPasses(tiles, anims), !.anims = <<>>,
                          !.ran = ran, !.delivered = delivered])

\* The loop a handler never leaves goes round once more.
Spin ==
    /\ hung
    /\ tick' = ~tick
    /\ UNCHANGED <<engineVars, pm, tx>>

PmIdle ==
    [pc |-> "idle", input |-> <<>>, str |-> <<>>, i |-> 0, roots |-> <<>>,
     k |-> 0, alt |-> [roots |-> <<>>, hang |-> FALSE]]

\* No text is under way.
TxIdle ==
    [pc |-> "idle", input |-> <<>>, validation |-> validate(<<>>), roots |-> <<>>,
     text |-> <<>>, again |-> <<>>, withPos |-> [text |-> <<>>, positions |-> <<>>],
     offset |-> 0, found |-> 0]

\* The application as index.html and app.js construct it
EngineInit ==
    /\ text = <<>>
    /\ nodes = NoNodes
    /\ roots = <<>>
    /\ nextId = 1
    /\ batchMode = FALSE
    /\ pendingEvents = <<>>
    /\ tiles = NoTiles
    /\ anims = <<>>
    /\ selectedTile = 0
    /\ suppressRelayout = FALSE
    /\ autoSync = TRUE
    /\ isSyncing = FALSE
    /\ textIsFocused = FALSE
    /\ pendingTextSync = FALSE
    /\ textDebounceTimer = "null"
    /\ timers = 0
    /\ status = [message |-> "", missing |-> 0, type |-> ""]
    /\ hung = FALSE
    /\ tick = FALSE
    /\ ran = <<>>
    /\ delivered = <<>>
    /\ deferred = FALSE
    /\ gestures = 0

Init ==
    /\ EngineInit
    /\ pm = PmIdle
    /\ tx = TxIdle

Next ==
    \/ Focus
    \/ Blur
    \/ \E t \in TypedTexts : Input(t)
    \/ KeyEnter
    \/ TimerFire
    \/ SetAutoSync
    \/ ForceTextToCanvas
    \/ ForceCanvasToText
    \/ \E t \in 1..MaxId : DoubleClick(t)
    \/ DeleteKey
    \/ \E c \in 1..MaxId : LineClick(c)
    \/ \E n \in 1..MaxId, l \in EditLabels : EditLabel(n, l)
    \/ AnimFrame
    \/ Spin

Spec == Init /\ [][Next]_vars

\* ------------------------------------------------------------------------
\* The engine with a serializer that can raise an exception
\* ------------------------------------------------------------------------

\* The button that forces the text from the canvas, serialize raising
ForceCanvasToTextThrows ==
    /\ ~hung /\ Gesture
    /\ Commit(forceCanvasToTextWith(Cur, Threw))

\* The button that forces the canvas from the text, an exception being
\* raised in the parser or in the rebuild of the canvas
ForceTextToCanvasThrows(where) ==
    /\ ~hung /\ Gesture
    /\ autoSync => IdsLeftToParse
    /\ ~parse(text).hang
    /\ where = "parse" => Trim(text) # <<>>
    /\ Commit(forceTextToCanvasRaising(Cur, where))

NextFault ==
    \/ Next
    \/ ForceCanvasToTextThrows
    \/ \E where \in {"parse", "rebuild"} : ForceTextToCanvasThrows(where)

SpecFault == Init /\ [][NextFault]_vars

\* ------------------------------------------------------------------------
\* BracketParser.parse(str) on a tree of its own, one pass of the loop of
\* parseMultipleRoots at a time
\* ------------------------------------------------------------------------

Alphabet == {"[", "]", " ", "a"}

\* The longest input text
MaxLen == 7

\* "[NP [DET the] [NOUN cat]]"
EndToEndText ==
    <<"[", "N", "P", " ", "[", "D", "E", "T", " ", "t", "h", "e", "]", " ",
      "[", "N", "O", "U", "N", " ", "c", "a", "t", "]", "]">>

ParseInputs == UNION {[1..n -> Alphabet] : n \in 0..MaxLen} \cup {EndToEndText}

\* The counts of "[" and of "]" among the first n characters
Opens(str, n)  == Cardinality({i \in 1..n : str[i] = "["})
Closes(str, n) == Cardinality({i \in 1..n : str[i] = "]"})

WellFormed(str) ==
    /\ \A n \in 0..Len(str) : Closes(str, n) <= Opens(str, n)
    /\ Closes(str, Len(str)) = Opens(str, Len(str))

\* The number of closing brackets that end str
RECURSIVE TrailingClosers(_)
TrailingClosers(str) ==
    IF str # <<>> /\ str[Len(str)] = "]"
    THEN 1 + TrailingClosers(SubSeq(str, 1, Len(str) - 1)) ELSE 0

InitParse ==
    /\ EngineInit
    /\ \E t \in ParseInputs : pm = [PmIdle EXCEPT !.pc = "parse", !.input = t]
    /\ tx = TxIdle

\* parse up to the call of parseMultipleRoots
ParseBegin ==
    /\ pm.pc = "parse"
    /\ pm' = IF Trim(pm.input) = <<>> THEN [pm EXCEPT !.pc = "done"]
             ELSE [pm EXCEPT !.pc = "loop", !.str = balanceBrackets(Trim(pm.input))]
    /\ UNCHANGED <<engineVars, tick, tx>>

\* The pass r of the loop
PassTaken(r) ==
    /\ pm' = IF r.break THEN [pm EXCEPT !.pc = "done", !.roots = r.roots]
             ELSE [pm EXCEPT !.i = r.i, !.roots = r.roots]
    /\ tick' = ~tick
    /\ UNCHANGED <<engineVars, tx>>

ParsePass ==
    /\ pm.pc = "loop" /\ pm.i < Len(pm.str)
    /\ PassTaken(RootsLoopBody(pm.str, pm.i, pm.roots))

\* The loop condition fails: parseMultipleRoots and parse return.
ParseReturn ==
    /\ pm.pc = "loop" /\ ~(pm.i < Len(pm.str))
    /\ pm' = [pm EXCEPT !.pc = "done"]
    /\ UNCHANGED <<engineVars, tick, tx>>

\* A second call, on the input without its last k closing brackets
ParseShortened(k) ==
    /\ pm.pc = "done" /\ WellFormed(pm.input)
    /\ k \in 1..TrailingClosers(pm.input)
    /\ pm' = [pm EXCEPT !.pc = "compared", !.k = k,
                        !.alt = parse(SubSeq(pm.input, 1, Len(pm.input) - k))]
    /\ UNCHANGED <<engineVars, tick, tx>>

NextParse ==
    \/ ParseBegin
    \/ ParsePass
    \/ ParseReturn
    \/ \E k \in 1..MaxLen : ParseShortened(k)

SpecParse == InitParse /\ [][NextParse]_vars

\* ------------------------------------------------------------------------
\* One text taken through validate, parse, serialize, a second parse, and
\* the position map
\* ------------------------------------------------------------------------

\* The pieces the texts are made of
TextTokens ==
    { <<"[">>, <<"]">>, <<" ">>, <<"a">>, <<"^">>, <<"_">>,
      <<"<", "a", ">">>, <<"<", "_", ">">> }

\* The most pieces in a text
MaxTokens == 4

TextInputs ==
    {ConcatAll(ts) : ts \in UNION {[1..n -> TextTokens] : n \in 0..MaxTokens}}

InitText ==
    /\ EngineInit
    /\ pm = PmIdle
    /\ \E t \in TextInputs : tx = [TxIdle EXCEPT !.pc = "start", !.input = t]

\* validate(text)
TxValidate ==
    /\ tx.pc = "start"
    /\ tx' = [tx EXCEPT !.pc = "validated", !.validation = validate(tx.input)]
    /\ UNCHANGED <<engineVars, tick, pm>>

\* The call parse(text) with the result r
TxParsed(r) ==
    /\ tx' = IF r.hang THEN [tx EXCEPT !.pc = "hung"]
             ELSE [tx EXCEPT !.pc = "parsed", !.roots = r.roots]
    /\ UNCHANGED <<engineVars, tick, pm>>

TxParse ==
    /\ tx.pc = "validated"
    /\ TxParsed(parse(tx.input))

\* The loop of a parse that does not return goes round once more.
TxSpin ==
    /\ tx.pc = "hung"
    /\ tick' = ~tick
    /\ UNCHANGED <<engineVars, pm, tx>>

\* serialize(tree) and serializeWithPositions(tree), the nodes of the forest
\* carrying the ids 1, 2, ... in the order the parser made them
TxSerialize ==
    /\ tx.pc = "parsed"
    /\ tx' = [tx EXCEPT !.pc = "serialized",
                        !.text = serializeRoots(tx.roots),
                        !.withPos = serializeWithPositions(
                                        MaterializeAll(tx.roots, 0, 1).nodes,
                                        MaterializeAll(tx.roots, 0, 1).ids)]
    /\ UNCHANGED <<engineVars, tick, pm>>

\* serialize(parse(text)) on the text serialize gave, r being that parse
TxReparsed(r) ==
    /\ tx' = IF r.hang THEN [tx EXCEPT !.pc = "hung"]
             ELSE [tx EXCEPT !.pc = "reparsed", !.again = serializeRoots(r.roots)]
    /\ UNCHANGED <<engineVars, tick, pm>>

TxReparse ==
    /\ tx.pc = "serialized"
    /\ TxReparsed(parse(tx.text))

\* serializeCompact(parse(text)) on the text serializePretty gives for the
\* forest, r being that parse
TxPrettyReparsed(pretty, r) ==
    /\ tx' = IF r.hang THEN [tx EXCEPT !.pc = "hung"]
             ELSE [tx EXCEPT !.pc = "prettied", !.text = pretty,
                             !.again = serializeRoots(r.roots)]
    /\ UNCHANGED <<engineVars, tick, pm>>

TxPretty ==
    /\ tx.pc = "parsed"
    /\ TxPrettyReparsed(serializePrettyRoots(tx.roots), parse(serializePrettyRoots(tx.roots)))

\* findNodeAtPosition(offset, positions), for an offset in the text or just
\* beyond it
TxFound(offset) ==
    /\ tx' = [tx EXCEPT !.pc = "found", !.offset = offset,
                        !.found = findNodeAtPosition(offset, tx.withPos)]
    /\ UNCHANGED <<engineVars, tick, pm>>

TxFind ==
    /\ tx.pc = "serialized"
    /\ \E offset \in 0..(Len(tx.withPos.text) + 1) : TxFound(offset)

NextText ==
    \/ TxValidate
    \/ TxParse
    \/ TxSpin
    \/ TxSerialize
    \/ TxReparse
    \/ TxPretty
    \/ TxFind

SpecText == InitText /\ [][NextText]_vars

\* ------------------------------------------------------------------------
\* The canvas: a diagram loaded from a text, then edited with the mouse
\* ------------------------------------------------------------------------

\* The texts loadFromURL finds in the address
CanvasTexts ==
    { <<"[", "a", " ", "[", "b", " ", "[", "c", "]", " ", "[", "d", "]", "]", " ",
        "[", "e", "]", "]">>,
      <<"[", "a", " ", "[", "b", "]", "]", " ", "[", "c", "]">> }

\* The most things the user does on the canvas in one run
MaxMoves == 2

\* What the palette offers
PaletteItems ==
    { [type |-> "terminal", value |-> <<"w">>],
      [type |-> "pos", value |-> <<"N">>],
      [type |-> "phrase", value |-> <<"N", "P">>] }

\* A point far from every tile
FarPoint == [x |-> Px(1500), y |-> Px(1500)]

\* A point at the height of the first level that is farther from some tiles
\* than CONNECTION_THRESHOLD and nearer than DISCONNECT_THRESHOLD
BandPoint == [x |-> Px(750), y |-> Px(TOP_MARGIN) + Px(TILE_HEIGHT) \div 2]

\* Where the user lets go of what is dragged: one level below or above a
\* tile, halfway along a connection line, between the two thresholds, or
\* far from everything
DropPoints ==
    {[x |-> Center(Cur, m).x, y |-> Center(Cur, m).y + d] :
        m \in DOMAIN tiles, d \in {Px(LEVEL_HEIGHT), 0 - Px(LEVEL_HEIGHT)}}
    \cup {[x |-> (Center(Cur, c).x + Center(Cur, nodes[c].parent).x) \div 2,
           y |-> (Center(Cur, c).y + Center(Cur, nodes[c].parent).y) \div 2] :
            c \in {n \in DOMAIN nodes \cap DOMAIN tiles :
                     nodes[n].parent \in DOMAIN tiles}}
    \cup {BandPoint, FarPoint}

Move ==
    /\ ~hung /\ gestures < MaxMoves
    /\ gestures' = gestures + 1

InitCanvas ==
    /\ EngineInit
    /\ pm = PmIdle
    /\ tx = TxIdle

\* loadFromURL: the text of the address goes into the input and is parsed
LoadFromURL(t) ==
    /\ ~hung /\ gestures = 0 /\ nextId = 1
    /\ UNCHANGED gestures
    /\ Commit(forceTextToCanvas([Cur EXCEPT !.text = t]))

\* The release of a dragged tile with the state s1 that
\* finalizeAutoConnection leaves
Released(s1, node) ==
    \E children \in Reorderings(s1, node) : Commit(AfterRelease(s1, node, children))

\* A tile is dragged to the point p and released
DragRelease(node, p) ==
    /\ Move /\ node \in DOMAIN nodes /\ node \in DOMAIN tiles
    /\ p # Center(Cur, node)
    /\ Released(finalizeAutoConnection(DragTo(Cur, node, p), node), node)

\* A palette item is dropped at the point p
PaletteDrop(item, p) ==
    /\ Move /\ nextId + (IF item.type = "pos" THEN 1 ELSE 0) <= MaxId
    /\ Commit(handleDrop(Cur, item.type, item.value, p.x, p.y))

CanvasDoubleClick(t) ==
    /\ Move /\ t \in DOMAIN tiles
    /\ Commit(handleTileDoubleClick(Cur, t))

CanvasLineClick(child) ==
    /\ Move
    /\ child \in DOMAIN nodes /\ child \in DOMAIN tiles
    /\ nodes[child].parent # 0 /\ nodes[child].parent \in DOMAIN tiles
    /\ Commit(onLineMouseDown(Cur, child))

\* Delete or Backspace with a tile selected
CanvasDeleteKey ==
    /\ Move /\ selectedTile # 0
    /\ Commit(onDeleteKey(Cur))

NextCanvas ==
    \/ \E t \in CanvasTexts : LoadFromURL(t)
    \/ \E node \in 1..MaxId, p \in DropPoints : DragRelease(node, p)
    \/ \E item \in PaletteItems, p \in DropPoints : PaletteDrop(item, p)
    \/ \E t \in 1..MaxId : CanvasDoubleClick(t)
    \/ \E c \in 1..MaxId : CanvasLineClick(c)
    \/ CanvasDeleteKey
    \/ AnimFrame

SpecCanvas == InitCanvas /\ [][NextCanvas]_vars

\* ------------------------------------------------------------------------
\* Properties
\* ------------------------------------------------------------------------

\* The engine code x ran in the latest handler.
Ran(x) == \E n \in 1..Len(ran) : ran[n] = x

Forest == ForestValue(nodes, roots)

\* C1: when the listener has handled a tree event with the text input not
\* focused, the text is the compact serialization of the forest as the
\* handler leaves it, the order of the roots after its relayout included.
C1_TextIsForestAfterTreeEvent ==
    (Ran("listener") /\ ~textIsFocused) => text = serialize(nodes, roots)

\* C2: a handler that runs syncTextToCanvas does not write the text, and
\* neither the body of the tree listener nor that of syncCanvasToText runs
\* in it: the events of the parse find isSyncing set.
C2_TextSyncDoesNotReenter ==
    [][Ran("syncTextToCanvas")' =>
         /\ text' = text
         /\ ~Ran("listener")'
         /\ ~Ran("syncCanvasToText")']_vars

C2_Witness ==
    /\ Ran("syncTextToCanvas") /\ ~hung /\ ~isSyncing
    /\ Len(roots) >= 1 /\ Cardinality(DOMAIN nodes) >= 3

\* C3: when a tree event has skipped the text refresh because the input had
\* the focus, the text is the serialization of the forest once the blur
\* handler has returned.
C3_BlurFlushesDeferredRefresh ==
    [][(textIsFocused /\ ~textIsFocused' /\ deferred) =>
         text' = serialize(nodes', roots')]_vars

\* C4: while the text input has the focus, a handler in which the tree
\* listener runs leaves the text as it was, and so does the onTreeChanged
\* callback.
C4_FocusedTextUntouched ==
    /\ [][(textIsFocused /\ Ran("listener")') => text' = text]_vars
    /\ [](textIsFocused => onTreeChanged(Cur).text = text)

C4_Witness ==
    /\ textIsFocused /\ Ran("listener")
    /\ text # serialize(nodes, roots)

\* C5: at most one debounce timer is pending, it is the one the engine's
\* field names, and after a keystroke with autoSync on it is the one that
\* keystroke scheduled.
C5_OneTimerPending ==
    /\ timers <= 1
    /\ timers = 1 <=> textDebounceTimer = "live"
    /\ Ran("setTimeout") => timers = 1

C5_Witness ==
    Ran("clearTimeout") /\ Ran("setTimeout") /\ timers = 1

\* C6 as stated: when the Enter handler has returned no timer is pending and
\* the forest is the parse of the text.
C6_EnterParsesNow ==
    (Ran("enter") /\ ~hung) =>
        /\ timers = 0
        /\ Forest = parse(text).roots

\* C6, with autoSync on: when the Enter handler has returned no timer is
\* pending, the forest is the parse of the text and the canvas shows it.
\* With autoSync off Enter still cancels the timer.
C6_EnterParsesNowIfAutoSync ==
    Ran("enter") =>
        /\ timers = 0
        /\ (autoSync /\ ~hung) =>
             /\ Forest = parse(text).roots
             /\ DOMAIN tiles = DOMAIN nodes

C6_Witness ==
    /\ ran = <<"enter", "clearTimeout", "syncTextToCanvas">>
    /\ ~hung /\ timers = 0 /\ roots # <<>>

\* The forest is the parse of the text and every node has its tile.
Synced ==
    /\ ~hung
    /\ Forest = parse(text).roots
    /\ DOMAIN tiles = DOMAIN nodes

\* C7: when the callback of the debounce timer has run syncTextToCanvas,
\* the forest is the parse of the text and the canvas is rebuilt from it.
C7_TimerBringsTextToForest ==
    (Ran("debounce") /\ Ran("syncTextToCanvas")) => Synced

\* C8: every pass of the loop of parseMultipleRoots leaves the loop or moves
\* i forward, so that the loop ends and parse returns.
C8_EveryPassAdvances ==
    (pm.pc = "loop" /\ pm.i < Len(pm.str)) =>
        \/ RootsLoopBody(pm.str, pm.i, pm.roots).break
        \/ RootsLoopBody(pm.str, pm.i, pm.roots).i > pm.i

\* C9: the text balanceBrackets returns is well-formed.
C9_BalancedIsWellFormed ==
    pm.pc \in {"loop", "done", "compared"} => WellFormed(pm.str)

\* C10: for a well-formed text, the parse of the text without its last k
\* closing brackets returns, and it serializes as the parse of the text does.
C10_ClosersAreOptional ==
    pm.pc = "compared" =>
        /\ ~pm.alt.hang
        /\ serializeRoots(pm.alt.roots) = serializeRoots(pm.roots)

C10_Witness ==
    /\ pm.pc = "compared" /\ pm.k = 2
    /\ Len(pm.roots) = 1 /\ Len(pm.roots[1].children) >= 1

\* C11: for the forest T that parse gives for a text, the compact
\* serialization of parse(serialize(T)) is serialize(T).
C11_RoundTripStable ==
    tx.pc = "reparsed" => tx.again = tx.text

\* The depth of the brackets after the first n characters
DepthAfter(str, n) == Opens(str, n) - Closes(str, n)

\* The lengths of the prefixes after which the depth is negative
NegativeAt(str) == {n \in 1..Len(str) : DepthAfter(str, n) < 0}

\* C12: validate reports "Unexpected closing bracket" at the first index at
\* which the depth goes negative; else, when the depth ends at d > 0,
\* "Missing d closing bracket(s)" (singular for d = 1) at the length of the
\* text; else the text is valid, a blank text included.
C12_ValidateReportsDepth ==
    tx.pc # "idle" /\ tx.pc # "start" =>
        LET t == tx.input
            v == tx.validation
            d == DepthAfter(t, Len(t))
        IN  IF NegativeAt(t) # {}
            THEN /\ ~v.valid
                 /\ v.error = "Unexpected closing bracket"
                 /\ \A n \in NegativeAt(t) : v.position + 1 <= n
                 /\ v.position + 1 \in NegativeAt(t)
            ELSE IF d > 0
            THEN /\ ~v.valid
                 /\ v.error = "Missing closing bracket"
                 /\ v.missing = d
                 /\ v.plural <=> d > 1
                 /\ v.position = Len(t)
            ELSE /\ v.valid
                 /\ v.error = ""
                 /\ v.position = -1

C12_Witness ==
    /\ tx.pc = "validated"
    /\ ~tx.validation.valid
    /\ tx.validation.missing = 2
    /\ tx.validation.position = Len(tx.input)
    /\ Len(tx.input) = 4

\* The status the validation of the text calls for once the canvas is rebuilt.
StatusFor(validation) ==
    IF validation.valid
    THEN [message |-> "Synced", missing |-> 0, type |-> ""]
    ELSE [message |-> validation.error, missing |-> validation.missing,
          type |-> "warning"]

\* C13: when a handler has run syncTextToCanvas past its guard, the forest
\* is the parse of the text and every node has its tile, whether or not the
\* text validates, and the status shown is Synced for a valid text and the
\* validation message as a warning for an invalid one.
C13_ValidationNeverBlocks ==
    Ran("syncTextToCanvas") =>
        /\ Synced
        /\ status = StatusFor(validate(Trim(text)))

\* The text is in the compact form: balanced brackets, single spaces that
\* separate two items only, and every bracketed node adjacent to its
\* neighbours only through a space or a closing bracket.
Canonical(t) ==
    /\ WellFormed(t)
    /\ \A n \in 1..Len(t) :
          /\ t[n] = " " => /\ n > 1 /\ n < Len(t)
                           /\ t[n - 1] \notin {" ", "["}
                           /\ t[n + 1] \notin {" ", "]"}
          /\ t[n] = "[" => (n = 1 \/ t[n - 1] = " ")
          /\ t[n] = "]" => (n = Len(t) \/ t[n + 1] \in {" ", "]"})

\* A node labelled pos whose only child is the terminal word
IsWordUnder(node, pos, word) ==
    /\ node.label = pos /\ node.nodeType # "TERMINAL"
    /\ Len(node.children) = 1
    /\ node.children[1].nodeType = "TERMINAL"
    /\ node.children[1].label = word
    /\ node.children[1].children = <<>>

\* C14: the parse of "[NP [DET the] [NOUN cat]]" is one root NP whose
\* children are DET and NOUN in that order, each with one terminal child,
\* "the" and "cat"; and the parse of any text in compact form serializes
\* as that text.
C14_EndToEnd ==
    /\ (pm.pc = "done" /\ pm.input = EndToEndText) =>
          /\ Len(pm.roots) = 1
          /\ pm.roots[1].label = <<"N", "P">> /\ pm.roots[1].nodeType = "PHRASE"
          /\ Len(pm.roots[1].children) = 2
          /\ IsWordUnder(pm.roots[1].children[1], <<"D", "E", "T">>, <<"t", "h", "e">>)
          /\ IsWordUnder(pm.roots[1].children[2], <<"N", "O", "U", "N">>, <<"c", "a", "t">>)
    /\ (pm.pc = "done" /\ Canonical(pm.input)) =>
          serializeRoots(pm.roots) = pm.input

C14_Witness ==
    /\ pm.pc = "done" /\ pm.input = EndToEndText
    /\ Canonical(pm.input) /\ Len(pm.roots) = 1

\* The characters of str from offset start up to, not including, offset end
Slice(str, start, end) == SubSeq(str, start + 1, end)

\* Every node of the forest ns has a range, the text in the range is the
\* compact serialization of the node's subtree, and the range of a child
\* lies strictly inside that of its parent.
RangesAgree(ns, withPos) ==
    /\ DOMAIN withPos.positions = DOMAIN ns
    /\ \A id \in DOMAIN ns :
          LET pos == withPos.positions[id]
          IN  /\ 0 <= pos.start /\ pos.start < pos.end /\ pos.end <= Len(withPos.text)
              /\ Slice(withPos.text, pos.start, pos.end) = serializeNode(NodeValue(ns, id))
              /\ \A k \in 1..Len(ns[id].children) :
                    LET kid == withPos.positions[ns[id].children[k]]
                    IN  pos.start < kid.start /\ kid.end < pos.end

\* C15: serializeWithPositions returns the text compact serialize returns,
\* and for every node of the forest a range whose text is the compact
\* serialization of the node's subtree; the range of a parent strictly
\* contains the ranges of its children.
C15_PositionsMatchText ==
    /\ serializeWithPositions(nodes, roots).text = serialize(nodes, roots)
    /\ RangesAgree(nodes, serializeWithPositions(nodes, roots))

\* The nodes whose range [start, end) holds the offset
NodesAt(offset, positions) ==
    {id \in DOMAIN positions :
        positions[id].start <= offset /\ offset < positions[id].end}

Width(pos) == pos.end - pos.start

\* C16: findNodeAtPosition returns a node whose half-open range [start, end)
\* holds the offset and none of the nodes whose range holds it has a
\* smaller range; it returns null when no range holds the offset.
C16_InnermostNodeAtOffset ==
    tx.pc = "found" =>
        IF NodesAt(tx.offset, tx.withPos.positions) = {} THEN tx.found = 0
        ELSE /\ tx.found \in NodesAt(tx.offset, tx.withPos.positions)
             /\ \A id \in NodesAt(tx.offset, tx.withPos.positions) :
                   Width(tx.withPos.positions[tx.found]) <= Width(tx.withPos.positions[id])

\* The k-th node up the parent links from n, 0 when the links end before
RECURSIVE NthParent(_, _, _)
NthParent(ns, n, k) ==
    IF k = 0 \/ n \notin DOMAIN ns THEN (IF n \in DOMAIN ns THEN n ELSE 0)
    ELSE NthParent(ns, ns[n].parent, k - 1)

\* No node is reached from itself along the parent links.
Acyclic(ns) ==
    \A n \in DOMAIN ns : \A k \in 1..Cardinality(DOMAIN ns) : NthParent(ns, n, k) # n

\* With a tile selected, a double click on the tile t would put an ancestor
\* of a node below that node.
AsksForCycle(s, t) ==
    /\ s.selectedTile # 0 /\ s.selectedTile # t
    /\ s.selectedTile \in DOMAIN s.nodes /\ t \in DOMAIN s.nodes
    /\ IF s.tiles[s.selectedTile].top < s.tiles[t].top
       THEN isAncestorOf(s.nodes, t, s.selectedTile)
       ELSE isAncestorOf(s.nodes, s.selectedTile, t)

\* C17: whatever the user has connected by double clicks, drag releases and
\* palette drops, the parent links of the forest have no cycle; and a double
\* click that would put a node below one of its descendants leaves the
\* roots, the parent links and the children lists as they are.
C17_NoCycles ==
    /\ Acyclic(nodes)
    /\ \A t \in DOMAIN tiles :
          AsksForCycle(Cur, t) =>
              /\ handleTileDoubleClick(Cur, t).nodes = nodes
              /\ handleTileDoubleClick(Cur, t).roots = roots

\* A tile is selected and a double click on the tile of one of its node's
\* ancestors, which a drag has left below it, is about to be refused.
C17_Witness ==
    /\ gestures > 0 /\ ~hung
    /\ \E t \in DOMAIN tiles :
          /\ AsksForCycle(Cur, t)
          /\ nodes[selectedTile].parent = t
          /\ tiles[selectedTile].top < tiles[t].top
          /\ handleTileDoubleClick(Cur, t).selectedTile = 0
          /\ handleTileDoubleClick(Cur, t).nodes = nodes
    /\ \E n \in DOMAIN nodes : Len(nodes[n].children) > 0

\* The roots as the sort of relayout leaves them
SortedRoots(s) == SortRoots(s, <<>>, s.roots)

\* The targets a run of relayout computes in the state s
RelayoutTargets(s) == LayoutTargets([s EXCEPT !.roots = SortedRoots(s)], SortedRoots(s))

\* C18: when relayout has put the tiles of a forest on their targets, a
\* second run on the unchanged forest computes the same target for every
\* node.
C18_LayoutIdempotent ==
    (roots # <<>> /\ ~suppressRelayout) =>
        RelayoutTargets(relayout(Cur, FALSE)) = RelayoutTargets(Cur)

\* The leaves of the forest from left to right, the roots in sorted order
LeavesInOrder(s) ==
    SelectSeq(getAllNodes(s.nodes, SortedRoots(s)),
              LAMBDA n : Len(s.nodes[n].children) = 0)

\* C19: in the targets of relayout every leaf of the forest is centred one
\* UNIT_WIDTH to the right of the leaf before it, the last leaf of one root
\* and the first leaf of the next root included.
C19_LeafSpacing ==
    roots # <<>> =>
        LET targets == RelayoutTargets(Cur)
            leaves  == LeavesInOrder(Cur)
        IN  \A i \in 2..Len(leaves) :
                /\ leaves[i] \in DOMAIN targets
                /\ leaves[i - 1] \in DOMAIN targets
                /\ targets[leaves[i]].centerX = targets[leaves[i - 1]].centerX + Px(UNIT_WIDTH)

\* A drag release has handed relayout's targets to an animation pass for a
\* forest of two roots and three leaves or more.
C19_Witness ==
    /\ gestures > 0 /\ anims # <<>>
    /\ anims[Len(anims)] = RelayoutTargets(Cur)
    /\ Len(roots) >= 2 /\ Len(LeavesInOrder(Cur)) >= 3
    /\ \E r \in 1..Len(roots) : Len(nodes[roots[r]].children) >= 2

\* C20: in the targets of relayout every node with children is centred
\* half way between its first and its last child, and so right above an
\* only child.
C20_ParentCentering ==
    roots # <<>> =>
        LET targets == RelayoutTargets(Cur)
        IN  \A n \in DOMAIN targets :
                Len(nodes[n].children) > 0 =>
                    LET first == nodes[n].children[1]
                        last  == nodes[n].children[Len(nodes[n].children)]
                    IN  /\ first \in DOMAIN targets /\ last \in DOMAIN targets
                        /\ 2 * targets[n].centerX
                             = targets[first].centerX + targets[last].centerX

\* relayout's targets are in an animation pass for a forest in which a node
\* has three children whose middle one is not half way between the others.
C20_Witness ==
    /\ gestures > 0 /\ anims # <<>>
    /\ anims[Len(anims)] = RelayoutTargets(Cur)
    /\ \E n \in DOMAIN anims[Len(anims)] :
          /\ Len(nodes[n].children) = 3
          /\ 2 * anims[Len(anims)][nodes[n].children[2]].centerX
               # anims[Len(anims)][nodes[n].children[1]].centerX
                 + anims[Len(anims)][nodes[n].children[3]].centerX

\* The user can still do something on the canvas
CanMove == ~hung /\ gestures < MaxMoves

\* The square of the distance between the centres of two tiles of s
SquaredDistance(s, a, b) ==
    (Center(s, a).x - Center(s, b).x) * (Center(s, a).x - Center(s, b).x)
    + (Center(s, a).y - Center(s, b).y) * (Center(s, a).y - Center(s, b).y)

\* The node has a parent, and released where the drag s1 has put it, it
\* finds no connection line to go into and no node to go under.
ReleasedWithoutMatch(s1, node) ==
    /\ s1.nodes[node].parent # 0 /\ s1.nodes[node].parent \in DOMAIN s1.tiles
    /\ findNearestConnectionLine(s1, node) = NoLine
    /\ findBestParentCandidate(s1, node) = 0

\* C21: the threshold of the disconnection is larger than that of the
\* reparenting; a node with a parent that is released where it matches
\* neither a connection line nor a candidate parent becomes a root exactly
\* when it is farther from its parent than DISCONNECT_THRESHOLD, and else
\* keeps its parent.  Checked for every release the user can make.
C21_Hysteresis ==
    /\ CONNECTION_THRESHOLD < DISCONNECT_THRESHOLD
    /\ \A node \in DOMAIN nodes \cap DOMAIN tiles : \A p \in DropPoints :
          LET s1 == DragTo(Cur, node, p)
          IN  (CanMove /\ ReleasedWithoutMatch(s1, node)) =>
                  LET parent == nodes[node].parent
                      after  == finalizeAutoConnection(s1, node)
                      beyond == SquaredDistance(s1, node, parent)
                                  > Px(DISCONNECT_THRESHOLD) * Px(DISCONNECT_THRESHOLD)
                  IN  /\ beyond => after.nodes[node].parent = 0
                                   /\ \E k \in 1..Len(after.roots) : after.roots[k] = node
                      /\ ~beyond => after.nodes[node].parent = parent
                                    /\ after.nodes = nodes /\ after.roots = roots

\* A node has been released between the two thresholds from its parent,
\* with nothing to connect to, and is still a child of that parent.
C21_Witness ==
    /\ gestures > 0 /\ anims # <<>>
    /\ \E node \in DOMAIN nodes \cap DOMAIN tiles :
          /\ ReleasedWithoutMatch(Cur, node)
          /\ SquaredDistance(Cur, node, nodes[node].parent)
                > Px(CONNECTION_THRESHOLD) * Px(CONNECTION_THRESHOLD)
          /\ SquaredDistance(Cur, node, nodes[node].parent)
                < Px(DISCONNECT_THRESHOLD) * Px(DISCONNECT_THRESHOLD)

\* What was done to node between the forests before and after is what the
\* preview showed: the node went between the two nodes of the insertion
\* shown; or under the parent shown, taking no node of before below it; or,
\* nothing being shown, no node got a parent it did not have.
DoneAsShown(shown, before, after, node) ==
    IF shown.kind = "insertion"
    THEN /\ after.nodes[node].parent = shown.parent
         /\ after.nodes[shown.child].parent = node
    ELSE IF shown.kind = "connection"
    THEN /\ after.nodes[node].parent = shown.parent
         /\ \A n \in DOMAIN before.nodes :
               after.nodes[n].parent = node => before.nodes[n].parent = node
    ELSE /\ after.nodes[node].parent = 0
            \/ (node \in DOMAIN before.nodes
                  /\ after.nodes[node].parent = before.nodes[node].parent)
         /\ \A n \in DOMAIN before.nodes :
               after.nodes[n].parent \in {0, before.nodes[n].parent}

\* C22: wherever the user can release a dragged tile, what
\* handleAutoConnectionPreview shows there is what finalizeAutoConnection
\* does there; wherever a palette item can be dropped, what showDropPreview
\* shows for the point is what handleDrop does to the new node.
C22_PreviewIsCommit ==
    CanMove =>
        /\ \A node \in DOMAIN nodes \cap DOMAIN tiles : \A p \in DropPoints :
              LET s1 == DragTo(Cur, node, p)
              IN  DoneAsShown(handleAutoConnectionPreview(s1, node), s1,
                              finalizeAutoConnection(s1, node), node)
        /\ \A item \in PaletteItems : \A p \in DropPoints :
              nextId + (IF item.type = "pos" THEN 1 ELSE 0) <= MaxId =>
                  DoneAsShown(showDropPreview(Cur, p.x, p.y), Cur,
                              handleDrop(Cur, item.type, item.value, p.x, p.y), nextId)

\* The user can act, and of the previews on offer one shows an insertion, one
\* a connection and one nothing, for a dragged tile and for a palette item.
C22_Witness ==
    /\ CanMove /\ gestures > 0 /\ nextId < MaxId
    /\ \A kind \in {"insertion", "connection", "nothing"} :
          /\ \E node \in DOMAIN nodes \cap DOMAIN tiles : \E p \in DropPoints :
                handleAutoConnectionPreview(DragTo(Cur, node, p), node).kind = kind
          /\ \E p \in DropPoints : showDropPreview(Cur, p.x, p.y).kind = kind

\* How often x occurs in seq
Occurrences(seq, x) == Cardinality({k \in 1..Len(seq) : seq[k] = x})

\* In the forest (ns, rs): the parent of a node is a node that lists it
\* once among its children, the children a node lists are nodes that have
\* it as their parent, and a registered root is a node without a parent,
\* registered once.
LinksConsistent(ns, rs) ==
    /\ \A n \in DOMAIN ns :
          ns[n].parent # 0 =>
              /\ ns[n].parent \in DOMAIN ns
              /\ Occurrences(ns[ns[n].parent].children, n) = 1
    /\ \A p \in DOMAIN ns : \A k \in 1..Len(ns[p].children) :
          /\ ns[p].children[k] \in DOMAIN ns
          /\ ns[ns[p].children[k]].parent = p
    /\ \A k \in 1..Len(rs) :
          /\ rs[k] \in DOMAIN ns
          /\ ns[rs[k]].parent = 0
          /\ Occurrences(rs, rs[k]) = 1

C24_Batching ==
    /\ (Ran("syncTextToCanvas") /\ ~hung) =>
          /\ ~batchMode /\ pendingEvents = <<>>
          /\ delivered = IF Trim(text) = <<>> THEN <<"tree-cleared">>
                         ELSE <<"tree-cleared", "tree-changed">>
    /\ (~hung /\ ~batchMode) =>
          \A child \in DOMAIN nodes :
              nodes[child].parent # 0 =>
                  LET inside  == disconnect(beginBatch(Cur), child)
                      outside == disconnect(Cur, child)
                  IN  /\ inside.delivered = <<>>
                      /\ inside.nodes[child].parent = 0
                      /\ Occurrences(inside.roots, child) = 1
                      /\ inside.pendingEvents = <<"nodes-disconnected">>
                      /\ inside.tiles = tiles /\ inside.anims = anims
                      /\ inside.text = text
                      /\ endBatch(inside).delivered = <<"tree-changed">>
                      /\ outside.delivered = <<"nodes-disconnected">>
                      /\ outside.nodes = inside.nodes
                      /\ SeqToSet(outside.roots) = SeqToSet(inside.roots)
                      /\ (~isSyncing /\ ~textIsFocused) =>
                            outside.text = serialize(inside.nodes, inside.roots)

\* A handler has parsed a text of two roots or more into the tree.
C24_Witness ==
    /\ Ran("syncTextToCanvas") /\ ~hung
    /\ Len(roots) >= 2
    /\ delivered = <<"tree-cleared", "tree-changed">>
    /\ \E n \in DOMAIN nodes : nodes[n].parent # 0

\* The node and the nodes below it, found along the parent links
NodeAndDescendants(ns, node) ==
    {n \in DOMAIN ns : \E k \in 0..Cardinality(DOMAIN ns) : NthParent(ns, n, k) = node}

\* The id is that of no node of the forest (ns, rs) and of no tile of ts:
\* findById does not find it, no list names it and no tile is left of it.
GoneFrom(id, ns, rs, ts) ==
    /\ id \notin DOMAIN ns /\ id \notin DOMAIN ts
    /\ Occurrences(rs, id) = 0
    /\ \A n \in DOMAIN ns : Occurrences(ns[n].children, id) = 0 /\ ns[n].parent # id

\* C25: outside a sync and a batch, deleteNode delivers the one event
\* nodes-deleted, and after it the node and every descendant is gone from
\* the forest and from the tiles while every other node and tile is still
\* there; after the Delete key no id that was given out and is no longer a
\* node has a tile.
C25_DeleteCascades ==
    /\ (~hung /\ ~batchMode /\ ~isSyncing) =>
          \A node \in DOMAIN nodes :
              LET after == deleteNode(Cur, node)
              IN  /\ after.delivered = <<"nodes-deleted">>
                  /\ \A id \in NodeAndDescendants(nodes, node) :
                        GoneFrom(id, after.nodes, after.roots, after.tiles)
                  /\ DOMAIN after.nodes = (DOMAIN nodes) \ NodeAndDescendants(nodes, node)
                  /\ DOMAIN after.tiles = (DOMAIN tiles) \ NodeAndDescendants(nodes, node)
    /\ (~hung /\ delivered = <<"nodes-deleted">>) =>
          \A id \in 1..(nextId - 1) :
              id \notin DOMAIN nodes => GoneFrom(id, nodes, roots, tiles)

\* The Delete key has removed a node together with a node below it, and
\* other nodes are left.
C25_Witness ==
    /\ ~hung /\ delivered = <<"nodes-deleted">>
    /\ Cardinality((1..(nextId - 1)) \ DOMAIN nodes) >= 2
    /\ DOMAIN nodes # {} /\ DOMAIN tiles = DOMAIN nodes

\* C26: a tree-to-text sync whose serialization raises returns to its
\* caller with the text and the status as they were and with isSyncing
\* false, and the sync that follows it writes the text of the forest.
C26_SerializationFailureContained ==
    (~hung /\ ~isSyncing) =>
        LET after == syncCanvasToTextWith(Cur, Threw)
        IN  /\ after.text = text /\ after.status = status
            /\ after.isSyncing = FALSE
            /\ after.nodes = nodes /\ after.roots = roots
            /\ syncCanvasToText(after).text = serialize(nodes, roots)
            /\ Ran("console.error") =>
                  /\ ~isSyncing
                  /\ syncCanvasToText(Cur).text = serialize(nodes, roots)

\* The serialization has raised in the latest handler while the text was
\* not that of the forest, and the text is still the one it was.
C26_Witness ==
    /\ Ran("console.error") /\ ~hung /\ ~isSyncing
    /\ roots # <<>>
    /\ text # serialize(nodes, roots)

\* C27: a part-of-speech item dropped on the canvas adds two nodes, the POS
\* node and a Terminal "..." that is its child, a phrase or a terminal item
\* adds one node; every node added has a tile, and the nodes and tiles
\* there were are all still there.
C27_DropCreatesNodesAndTiles ==
    CanMove =>
        \A item \in PaletteItems \cup {[type |-> "clause", value |-> <<"S">>]} :
          \A p \in DropPoints :
            nextId + (IF item.type = "pos" THEN 1 ELSE 0) <= MaxId =>
                LET after == handleDrop(Cur, item.type, item.value, p.x, p.y)
                    added == IF item.type = "pos" THEN {nextId, nextId + 1} ELSE {nextId}
                IN  /\ DOMAIN after.nodes = DOMAIN nodes \cup added
                    /\ DOMAIN after.tiles = DOMAIN tiles \cup added
                    /\ after.nextId = nextId + Cardinality(added)
                    /\ after.nodes[nextId].label = item.value
                    /\ after.nodes[nextId].nodeType
                         = (IF item.type = "terminal" THEN "TERMINAL"
                            ELSE IF item.type = "pos" THEN "POS"
                            ELSE IF item.type = "phrase" THEN "PHRASE" ELSE "CLAUSE")
                    /\ item.type = "pos" =>
                          /\ after.nodes[nextId + 1].nodeType = "TERMINAL"
                          /\ after.nodes[nextId + 1].parent = nextId
                          /\ after.nodes[nextId + 1].children = <<>>
                          /\ Occurrences(after.nodes[nextId].children, nextId + 1) = 1
                    /\ item.type # "pos" =>
                          \A k \in 1..Len(after.nodes[nextId].children) :
                              after.nodes[nextId].children[k] \in DOMAIN nodes

\* A part-of-speech item has been dropped: the newest node is a Terminal
\* with a tile, below a POS node with a tile that was made with it.
C27_Witness ==
    /\ gestures > 0 /\ nextId > 2 /\ ~hung
    /\ (nextId - 1) \in DOMAIN nodes /\ (nextId - 1) \in DOMAIN tiles
    /\ nodes[nextId - 1].nodeType = "TERMINAL"
    /\ nodes[nextId - 1].label = <<".", ".", ".">>
    /\ nodes[nextId - 1].parent = nextId - 2
    /\ nodes[nextId - 2].nodeType = "POS"
    /\ (nextId - 2) \in DOMAIN tiles

\* Between the forests before and after, the node n has gone between the
\* nodes of the line (p, c): n is a child of p and c a child of n, c is no
\* child of p any more, the former parent of n does not list it, the
\* children n had are still its children, and every other node has the
\* parent and the children it had.
Spliced(before, after, n, line) ==
    /\ after.nodes[n].parent = line.parent
    /\ Occurrences(after.nodes[line.parent].children, n) = 1
    /\ after.nodes[line.child].parent = n
    /\ Occurrences(after.nodes[n].children, line.child) = 1
    /\ Occurrences(after.nodes[line.parent].children, line.child) = 0
    /\ Occurrences(after.roots, n) = 0 /\ Occurrences(after.roots, line.child) = 0
    /\ (n \in DOMAIN before.nodes /\ before.nodes[n].parent \notin {0, line.parent}) =>
          Occurrences(after.nodes[before.nodes[n].parent].children, n) = 0
    /\ n \in DOMAIN before.nodes =>
          \A k \in 1..Len(before.nodes[n].children) :
              /\ Occurrences(after.nodes[n].children, before.nodes[n].children[k]) = 1
              /\ after.nodes[before.nodes[n].children[k]].parent = n
    /\ \A m \in (DOMAIN before.nodes) \ {n, line.child} :
          /\ after.nodes[m].parent = before.nodes[m].parent
          /\ m \notin {line.parent, before.nodes[line.child].parent}
             /\ (n \in DOMAIN before.nodes => m # before.nodes[n].parent)
                => after.nodes[m].children = before.nodes[m].children
    /\ \A k \in 1..Len(after.nodes[line.child].children) :
          after.nodes[line.child].children[k] # n

\* C28: when a tile is released where findNearestConnectionLine finds a
\* line, the node goes between the two nodes of that line, whether or not
\* there is a candidate parent, and nothing else in the forest changes; the
\* same for a phrase or a terminal item dropped from the palette.
C28_InsertionSplices ==
    CanMove =>
        /\ \A node \in DOMAIN nodes \cap DOMAIN tiles : \A p \in DropPoints :
              LET s1 == DragTo(Cur, node, p)
              IN  findNearestConnectionLine(s1, node) # NoLine =>
                      Spliced(s1, finalizeAutoConnection(s1, node), node,
                              findNearestConnectionLine(s1, node))
        /\ \A item \in PaletteItems : \A p \in DropPoints :
              (/\ item.type # "pos" /\ nextId <= MaxId
               /\ findNearestConnectionLineAtPoint(Cur, p.x, p.y) # NoLine) =>
                  Spliced(Cur, handleDrop(Cur, item.type, item.value, p.x, p.y), nextId,
                          findNearestConnectionLineAtPoint(Cur, p.x, p.y))

\* A tile lies, not yet moved by the layout, where it was released: on the
\* line between the tiles of two nodes, between which its node now is; there
\* was a candidate parent for it as well, and it has kept a child of its own.
C28_Witness ==
    /\ gestures > 0 /\ anims # <<>> /\ ~hung
    /\ \E n \in DOMAIN nodes \cap DOMAIN tiles :
          /\ nodes[n].parent # 0 /\ Len(nodes[n].children) >= 2
          /\ findBestParentCandidate(Cur, n) # 0
          /\ \E k \in 1..Len(nodes[n].children) :
                LET c == nodes[n].children[k]
                    d == pointToLineDistance(Center(Cur, n).x, Center(Cur, n).y,
                             Center(Cur, nodes[n].parent).x, Center(Cur, nodes[n].parent).y,
                             Center(Cur, c).x, Center(Cur, c).y)
                IN  /\ ~d.isNull /\ DistanceBelow(d, LINE_INSERTION_THRESHOLD)
                    /\ Center(Cur, n).y > Center(Cur, nodes[n].parent).y + Px(MIN_VERTICAL_GAP)
                    /\ Center(Cur, n).y < Center(Cur, c).y - Px(MIN_VERTICAL_GAP)

\* The parent/child links of the forest, read from the parent references
Edges(s) ==
    {[parent |-> s.nodes[c].parent, child |-> c] :
        c \in {n \in DOMAIN s.nodes : s.nodes[n].parent # 0}}

\* The distance of the centre of the node's tile from the segment of an edge
EdgeDistance(s, node, e) ==
    pointToLineDistance(Center(s, node).x, Center(s, node).y,
                        Center(s, e.parent).x, Center(s, e.parent).y,
                        Center(s, e.child).x, Center(s, e.child).y)

\* The edge touches neither the node nor a descendant of it
ClearOf(s, node, e) ==
    /\ e.parent \notin NodeAndDescendants(s.nodes, node)
    /\ e.child \notin NodeAndDescendants(s.nodes, node)

\* The three conditions on an edge: the projection falls inside the interior
\* margin of the segment, the distance is below the insertion threshold, and
\* the point is between the two ends with the minimum gap from each
MatchesInsertion(s, node, e) ==
    /\ e.parent \in DOMAIN s.tiles /\ e.child \in DOMAIN s.tiles
    /\ ~EdgeDistance(s, node, e).isNull
    /\ DistanceBelow(EdgeDistance(s, node, e), LINE_INSERTION_THRESHOLD)
    /\ Center(s, node).y >
           Min2(Center(s, e.parent).y, Center(s, e.child).y) + Px(MIN_VERTICAL_GAP)
    /\ Center(s, node).y <
           Max2(Center(s, e.parent).y, Center(s, e.child).y) - Px(MIN_VERTICAL_GAP)

\* What the line search returns for a node: an edge clear of the node and its
\* descendants that meets the three conditions and is no farther than any
\* other such edge, and no edge when none meets them.
NearestMatchingEdge(s, node) ==
    LET chosen  == findNearestConnectionLine(s, node)
        matches == {e \in Edges(s) : ClearOf(s, node, e) /\ MatchesInsertion(s, node, e)}
    IN  IF matches = {} THEN chosen = NoLine
        ELSE /\ chosen \in matches
             /\ \A e \in matches :
                   ~DistanceLess(EdgeDistance(s, node, e), EdgeDistance(s, node, chosen))

\* C29: for a tile dragged to any point, findNearestConnectionLine returns an
\* edge that touches neither the moving node nor its descendants and that is
\* the nearest of the edges within the insertion threshold, projected inside
\* the margin and vertically around the point; it returns none when no edge
\* is so.
C29_NearestEdgeChosen ==
    CanMove =>
        \A node \in DOMAIN nodes \cap DOMAIN tiles : \A p \in DropPoints :
            NearestMatchingEdge(DragTo(Cur, node, p), node)

\* The points exactly MIN_VERTICAL_GAP below the centre of a tile
GapPoints ==
    {[x |-> Center(Cur, m).x, y |-> Center(Cur, m).y + Px(MIN_VERTICAL_GAP)] :
        m \in DOMAIN tiles}

\* Twice horizontalDistance * HORIZONTAL_WEIGHT + verticalDistance
CandidateScore(s, childNode, n) ==
    3 * Abs(Center(s, n).x - Center(s, childNode).x)
      + 2 * Abs(Center(s, n).y - Center(s, childNode).y)

\* The node n may become the parent of childNode: it is another node, no
\* descendant of it and no Terminal, its tile is at least MIN_VERTICAL_GAP
\* above and nearer than CONNECTION_THRESHOLD
MayAdopt(s, childNode, n) ==
    /\ n \in DOMAIN s.nodes \cap DOMAIN s.tiles
    /\ n \notin NodeAndDescendants(s.nodes, childNode)
    /\ s.nodes[n].nodeType # "TERMINAL"
    /\ Center(s, childNode).y - Center(s, n).y >= Px(MIN_VERTICAL_GAP)
    /\ SquaredDistance(s, n, childNode) < Px(CONNECTION_THRESHOLD) * Px(CONNECTION_THRESHOLD)

\* What the search for a parent returns: a node that may adopt childNode with
\* a score no other such node beats, and null exactly when there is none
BestOfThoseThatMayAdopt(s, childNode) ==
    LET found == findBestParentCandidate(s, childNode)
        able  == {n \in DOMAIN s.nodes : MayAdopt(s, childNode, n)}
    IN  IF able = {} THEN found = 0
        ELSE /\ found \in able
             /\ \A n \in able :
                   CandidateScore(s, childNode, found) <= CandidateScore(s, childNode, n)

\* C30: for a tile dragged to any point, findBestParentCandidate returns a
\* node that is not the moving node, not a descendant of it and not a
\* Terminal, that lies at least MIN_VERTICAL_GAP above it and within
\* CONNECTION_THRESHOLD, and that has the least score of all such nodes; it
\* returns null exactly when there is no such node.
C30_BestParentCandidate ==
    CanMove =>
        \A node \in DOMAIN nodes \cap DOMAIN tiles : \A p \in DropPoints \cup GapPoints :
            BestOfThoseThatMayAdopt(DragTo(Cur, node, p), node)

\* The start of the row of leaves as relayout takes it from the first root,
\* before Math.max(60, ...) is applied
UnclampedStartX(s) ==
    CenterX(s, SortedRoots(s)[1])
    - (calculateLeafCount(s.nodes, SortedRoots(s)[1]) * Px(UNIT_WIDTH)) \div 2

\* C31: when the start of the row of leaves is not held at the left margin,
\* the target relayout computes for the first of the sorted roots is centred
\* where the tile of that root is centred before the run.
C31_FirstRootAnchored ==
    (/\ roots # <<>> /\ SortedRoots(Cur)[1] \in DOMAIN tiles
     /\ UnclampedStartX(Cur) >= Px(MIN_START_X)) =>
        RelayoutTargets(Cur)[SortedRoots(Cur)[1]].centerX = CenterX(Cur, SortedRoots(Cur)[1])

\* The text is one opening bracket and a label token, closed or not: the
\* token has no bracket and no white space in it
IsLabelText(str) ==
    /\ Len(str) >= 1 /\ str[1] = "["
    /\ \A i \in 2..(Len(str) - 1) : str[i] \notin {"[", "]"} /\ ~IsWs(str[i])
    /\ Len(str) >= 2 => str[Len(str)] # "[" /\ ~IsWs(str[Len(str)])

LabelTokenOf(str) ==
    IF str[Len(str)] = "]" THEN SubSeq(str, 2, Len(str) - 1) ELSE SubSeq(str, 2, Len(str))

\* The token without the ^ that ends it
WithoutTrailingCaret(token) ==
    IF token # <<>> /\ token[Len(token)] = "^"
    THEN SubSeq(token, 1, Len(token) - 1) ELSE token

\* The places of an underscore that the characters of a TOKEN follow up to
\* the end
TokenSuffixes(t) ==
    {i \in 1..Len(t) : /\ t[i] = "_" /\ i < Len(t)
                        /\ \A j \in (i + 1)..Len(t) : IsWord(t[j])}

\* The node follows the suffix rules for the label token
FollowsSuffixRules(node, token) ==
    LET t1 == WithoutTrailingCaret(token)
    IN  /\ node.isStarred = (t1 # token)
        /\ IF TokenSuffixes(t1) = {}
           THEN node.label = t1 /\ node.movementLabel = <<>>
           ELSE \E i \in TokenSuffixes(t1) :
                    /\ node.label = SubSeq(t1, 1, i - 1)
                    /\ node.movementLabel = SubSeq(t1, i + 1, Len(t1))

\* C32: the node parsed from a bracket that holds only a label token is
\* starred exactly when the token ends in ^, which is stripped; a _TOKEN
\* that then ends it becomes the movementLabel and is stripped; a token with
\* neither is the label unchanged, not starred and with no movementLabel.
C32_LabelSuffixRules ==
    (tx.pc = "parsed" /\ IsLabelText(tx.input)) =>
        /\ Len(tx.roots) = 1
        /\ FollowsSuffixRules(tx.roots[1], LabelTokenOf(tx.input))

\* The places in a text where a marker <TOKEN> begins
MarkersIn(str) ==
    {p \in 1..Len(str) :
        /\ str[p] = "<"
        /\ \E q \in (p + 2)..Len(str) :
              /\ str[q] = ">"
              /\ \A j \in (p + 1)..(q - 1) : IsWord(str[j])}

\* The TOKEN of the marker that begins at p
MarkerToken(str, p) ==
    SubSeq(str, p + 1, (CHOOSE q \in (p + 2)..Len(str) :
                            /\ str[q] = ">"
                            /\ \A j \in (p + 1)..(q - 1) : IsWord(str[j])) - 1)

\* What a text holds on its surface, from position i (1-based) on: an item
\* "node" for every opening bracket, whose label token is passed over, and
\* an item "run" with its text for every maximal stretch without brackets
\* that is not blank.
RECURSIVE SurfaceItems(_, _, _)
SurfaceItems(str, i, afterOpen) ==
    IF i > Len(str) THEN <<>>
    ELSE IF str[i] = "[" THEN <<[kind |-> "node", run |-> <<>>]>> \o SurfaceItems(str, i + 1, TRUE)
    ELSE IF str[i] = "]" THEN SurfaceItems(str, i + 1, FALSE)
    ELSE IF afterOpen /\ str[i] # " " THEN SurfaceItems(str, i + 1, TRUE)
    ELSE LET ends == {j \in i..Len(str) : j = Len(str) \/ str[j + 1] \in {"[", "]"}}
             e    == CHOOSE j \in ends : \A k \in ends : j <= k
         IN  (IF Trim(SubSeq(str, i, e)) = <<>> THEN <<>>
              ELSE <<[kind |-> "run", run |-> Trim(SubSeq(str, i, e))]>>)
             \o SurfaceItems(str, e + 1, FALSE)

\* The nodes of a parsed forest in preorder
RECURSIVE PreorderOf(_)
PreorderOf(list) ==
    IF list = <<>> THEN <<>>
    ELSE <<Head(list)>> \o PreorderOf(Head(list).children) \o PreorderOf(Tail(list))

\* The node is the Terminal of the run: its trace is the TOKEN of a marker
\* of the run and its label has no marker, or the run has no marker and is
\* its label.
TerminalOfRun(node, run) ==
    /\ node.nodeType = "TERMINAL" /\ node.children = <<>>
    /\ IF MarkersIn(run) = {}
       THEN node.label = run /\ node.movementTail = <<>>
       ELSE /\ \E p \in MarkersIn(run) : node.movementTail = MarkerToken(run, p)
            /\ MarkersIn(node.label) = {}

\* C33: in the forest parsed from a text with matching brackets the nodes
\* in preorder are the items on the surface of the text in their order:
\* every run of text that is not blank is exactly one Terminal, between the
\* bracketed nodes where the text has it; a run with a marker <TOKEN> gives
\* the Terminal that movementTail and a label without a marker.
C33_RunsAreTerminals ==
    (tx.pc = "parsed" /\ WellFormed(tx.input)) =>
        LET items == SurfaceItems(tx.input, 1, FALSE)
            found == PreorderOf(tx.roots)
        IN  /\ Len(found) = Len(items)
            /\ \A k \in 1..Len(items) :
                  IF items[k].kind = "run" THEN TerminalOfRun(found[k], items[k].run)
                  ELSE found[k].nodeType # "TERMINAL"

C35_TerminalsAreLeaves ==
    \A n \in DOMAIN nodes : nodes[n].nodeType = "TERMINAL" => nodes[n].children = <<>>

\* The handler has left the state r with the forest and the tiles of now,
\* without a parse and without a new timer
NoParseNoTimer(r) ==
    /\ r.nodes = nodes /\ r.roots = roots /\ r.nextId = nextId /\ r.tiles = tiles
    /\ \A k \in 1..Len(r.ran) : r.ran[k] \notin {"syncTextToCanvas", "setTimeout"}
    /\ r.timers <= timers
    /\ r.textDebounceTimer # "live" \/ textDebounceTimer = "live"

\* C36: while autoSync is off, a keystroke schedules no timer, and neither
\* the expiry of a timer scheduled earlier, nor Enter, nor forceTextToCanvas
\* parses the text or changes the forest.
C36_NoTextSyncWhileOff ==
    (~autoSync /\ ~hung) =>
        /\ \A t \in TypedTexts : NoParseNoTimer(onInput([Cur EXCEPT !.text = t]))
        /\ timers > 0 => NoParseNoTimer(onDebounce([Cur EXCEPT !.timers = @ - 1]))
        /\ NoParseNoTimer(onEnter(Cur))
        /\ NoParseNoTimer(forceTextToCanvas(Cur))

\* The timer of a keystroke has expired with autoSync off: the text in the
\* input is not that of the forest, and the callback has run.
C36_Witness ==
    /\ ~autoSync /\ ~hung /\ Ran("debounce")
    /\ Trim(text) # <<>> /\ text # serialize(nodes, roots)

\* C37: between two handlers, unless a parse is in a loop it never leaves,
\* isSyncing is false: every sync method has returned with it reset, also
\* when the parser, the rebuild of the canvas or the serializer has raised
\* an exception.
C37_SyncingResetWhenIdle ==
    ~hung => ~isSyncing

\* A sync in which an exception was raised has returned: the one from the
\* canvas with the error on the console, or the one from the text with the
\* error in the status.
C37_Witness ==
    /\ ~hung /\ ~isSyncing
    /\ \/ Ran("console.error")
       \/ Ran("syncTextToCanvas") /\ status.message = "Parse error"

\* The ids of the nodes of the forest: those under a registered root
IdsInForest ==
    {n \in DOMAIN nodes :
        \E k \in 0..Cardinality(DOMAIN nodes) :
            NthParent(nodes, n, k) # 0 /\ Occurrences(roots, NthParent(nodes, n, k)) > 0}

\* C38: between two handlers the nodes that have a tile are the nodes of the
\* forest: every node of the forest has a tile, and every tile is that of a
\* node of the forest.
C38_TilesAreTheNodes ==
    ~hung => (DOMAIN tiles = IdsInForest /\ IdsInForest = DOMAIN nodes)

\* Nodes have been deleted from a loaded forest, their tiles with them, and
\* nodes and tiles are left.
C38_Witness ==
    /\ ~hung /\ gestures > 0 /\ Ran("listener")
    /\ DOMAIN nodes # {} /\ Cardinality(DOMAIN nodes) < nextId - 1
    /\ DOMAIN tiles = DOMAIN nodes

\* C39: when a handler has parsed the text into the engine's tree, the
\* listeners have got one tree-cleared and, for a text that is not blank,
\* one tree-changed after it and nothing else, with the batch ended, also
\* when an exception was raised in the parser; for a blank text they have got
\* the tree-cleared alone and the forest is empty.
C39_ParseEvents ==
    Ran("syncTextToCanvas") =>
        IF Trim(text) = <<>>
        THEN delivered = <<"tree-cleared">> /\ DOMAIN nodes = {} /\ roots = <<>>
        ELSE delivered = <<"tree-cleared", "tree-changed">> /\ ~batchMode

\* C40: the pretty-printed text of a parsed forest parses to a forest with
\* the same compact text as the forest it was printed from.
C40_PrettyIsCompact ==
    tx.pc = "prettied" => tx.again = serializeRoots(tx.roots)

====
